---- MODULE Spec2Model ----
(***************************************************************************)
(* Model of the esm.sh TypeScript server plugin: the module resolution     *)
(* state machine (Plugin.resolveModuleName and its background fetch        *)
(* tasks), the persistent fetch cache it drives, the speculative fetch of  *)
(* missing declaration files, the import map reload and the debounced      *)
(* refresh of the project graph.                                           *)
(*                                                                         *)
(* Scheduling follows the JavaScript event loop: a step of the model is    *)
(* one synchronous call (resolveModuleName), one macrotask (a network      *)
(* response, the end of a file write, a timer callback, a configuration    *)
(* change) together with the promise reactions it makes runnable, or one   *)
(* drained promise reaction.  Time is kept relative: every timer carries   *)
(* the milliseconds left until it is due and every cache entry the         *)
(* milliseconds elapsed since its ctime (Date.now() - meta.ctime).         *)
(***************************************************************************)
EXTENDS Integers, Sequences, FiniteSets, Bags, TLC

(***************************************************************************)
(* Universe of names.                                                      *)
(***************************************************************************)
NoUrl == "none"
ModuleUrl == "https://esm.sh/react@18.3.1"
DtsUrl == "https://esm.sh/react@18.3.1/index.d.ts"
Urls == {ModuleUrl, DtsUrl}

\* a project source file, and a declaration file that lives in the cache store
ProjectDir == "/proj"
LocalFile == "/proj/src/app.ts"
StoreDir == "/home/.cache/esm.sh"
StoreFile == "/home/.cache/esm.sh/react@18.3.1/types.d.ts"
StoreFileUrl == "https://esm.sh/react@18.3.1/types.d.ts"
ContainingFiles == {LocalFile, StoreFile}

Specifiers == {"react", "lodash", ModuleUrl, DtsUrl, "./index.d.ts"}

IndexHtml == "/proj/index.html"
Docs == {IndexHtml}

(***************************************************************************)
(* Bounds of the model.                                                    *)
(***************************************************************************)
\* granularity of the clock, in milliseconds
TickMs == 500
\* network requests that the environment serves in one run
MaxFetchCalls == 3
\* configuration changes delivered in one run
MaxConfigChanges == 1
\* resolveModuleName calls watched in one synchronous turn
MaxTurnCalls == 2
\* depth of the JavaScript call stack available to resolveModuleName
MaxDepth == 4
\* network requests served to the cache when it is driven on its own
MaxCacheFetches == 3
\* entries of an imports table, and scopes, of the import maps that resolve
\* is applied to
MaxEntries == 2
\* configuration changes delivered when the handler is driven on its own
MaxNotifications == 2

(***************************************************************************)
(* Program constants.                                                      *)
(***************************************************************************)
\* debunce(..., 500)
DebounceMs == 500
\* the max-age directives (seconds) the server sends; -1: no usable max-age
MaxAges == {-1, 1}

(***************************************************************************)
(* Small helpers of the plugin.                                            *)
(***************************************************************************)
isHttpUrl(s) == s \in {ModuleUrl, DtsUrl, StoreFileUrl}

isRelativePath(s) == s \in {"./index.d.ts"}

\* /\.d\.(c|m)?ts$/ on the universe of names
isDts(s) == s \in {DtsUrl, StoreFileUrl, StoreFile,
                   "/home/.cache/esm.sh/react@18.3.1/index.d.ts",
                   "file:///home/.cache/esm.sh/react@18.3.1/index.d.ts",
                   "file:///proj/src/index.d.ts"}

\* regexpPackagePath: /name@version at the end of the path
isWellKnownCDNURL(u) == u = ModuleUrl

getScriptExtension(p) ==
  IF isDts(p) THEN ".d.ts"
  ELSE IF p = LocalFile THEN ".ts"
  ELSE ".js"

\* toUrl(path).startsWith(toUrl(cache.storeDir))
inStoreDir(f) == f = StoreFile

\* new URL(specifier, new URL(containingFile, "file:///")).href
newURL(spec, cf) ==
  IF isHttpUrl(spec) THEN spec
  ELSE IF spec = "./index.d.ts" THEN
    CASE cf = LocalFile -> "file:///proj/src/index.d.ts"
      [] cf = StoreFile -> "file:///home/.cache/esm.sh/react@18.3.1/index.d.ts"
      [] OTHER -> DtsUrl
  ELSE "file:///proj/src/" \o spec

isFileProtocol(href) == ~isHttpUrl(href)

\* the remote URL that a file of the cache store stands for (lines 249-254)
storeFileToUrl(f) == StoreFileUrl

(***************************************************************************)
(* Import maps.                                                            *)
(***************************************************************************)
\* A string of an import map is a sequence of units; "/" is a unit of its
\* own and every other unit stands for a run of characters without "/".
\* The names of the plugin's universe are strings of one unit.
str(name) == <<name>>
Slash == "/"

startsWith(s, prefix) ==
  Len(prefix) <= Len(s) /\ SubSeq(s, 1, Len(prefix)) = prefix
endsWithSlash(s) == Len(s) > 0 /\ s[Len(s)] = Slash
\* s.slice(n)
slice(s, n) == SubSeq(s, n + 1, Len(s))
\* s.split("/").length
splitLength(s) == 1 + Cardinality({i \in 1..Len(s) : s[i] = Slash})

\* imports: the entries [k, v] in the order of Object.entries;
\* scopes: the entries [origin, pathname, imports] in the order of for-in,
\* the name of each scope already parsed against $baseURL
EmptyImports == <<>>
EmptyScopes == <<>>
\* createBlankImportMap(); a document without a loaded map holds it
NoMap == [imports |-> EmptyImports, scopes |-> EmptyScopes]
ReactMap == [imports |-> <<[k |-> str("react"), v |-> str(ModuleUrl)]>>,
             scopes |-> EmptyScopes]

\* A parsed JSON text is a record: its type ("object", "array", "null",
\* "number", or "invalid" when JSON.parse throws) and, for the object of an
\* import map, its properties imports and scopes. A property is a table: its
\* type ("undefined" when absent) and its entries in the order of
\* Object.entries; the value of an entry of imports is a JSON value with its
\* type and, for a string, its units.
isObject(v) == v.type = "object"

\* a variant that deletes only the values that are no strings
validateImportsKeepingEmpty(entries) ==
  LET Keep(e) == e.v.type = "string"
      kept == SelectSeq(entries, Keep)
  IN [i \in 1..Len(kept) |-> [k |-> kept[i].k, v |-> kept[i].v.s]]

\* validateImports: delete imports[k] if (!v || typeof v !== "string")
validateImports(entries) ==
  LET Keep(e) == e.v.type = "string" /\ e.v.s # <<>>
      kept == SelectSeq(entries, Keep)
  IN [i \in 1..Len(kept) |-> [k |-> kept[i].k, v |-> kept[i].v.s]]

\* validateScopes: validate the scopes that are objects, delete the others
validateScopes(entries) ==
  LET Keep(e) == isObject(e.imports)
      kept == SelectSeq(entries, Keep)
  IN [i \in 1..Len(kept) |->
        [origin |-> kept[i].origin, pathname |-> kept[i].pathname,
         imports |-> validateImports(kept[i].imports.entries)]]

importMapFrom(v) ==
  IF isObject(v)
  THEN [imports |-> IF isObject(v.imports) THEN validateImports(v.imports.entries)
                    ELSE EmptyImports,
        scopes |-> IF isObject(v.scopes) THEN validateScopes(v.scopes.entries)
                   ELSE EmptyScopes]
  ELSE NoMap

\* An HTML text is the sequence of its nodes in document order; a node is a
\* script of type importmap with the JSON text of its body, or another node.
NoTable == [type |-> "undefined", entries |-> <<>>]
Script(json) == [tag |-> "importmap", json |-> json]
OtherNode == [tag |-> "div",
              json |-> [type |-> "null", imports |-> NoTable, scopes |-> NoTable]]

\* walk(parse(html), {enter}) from node i on, importMap being the map
\* assigned so far; JSON.parse that throws ends the walk in the catch
RECURSIVE walk(_, _, _)
walk(html, i, importMap) ==
  IF i > Len(html) THEN importMap
  ELSE IF html[i].tag = "importmap"
    THEN IF html[i].json.type = "invalid" THEN importMap
         ELSE IF isObject(html[i].json)
           THEN walk(html, i + 1, importMapFrom(html[i].json))
         ELSE walk(html, i + 1, importMap)
  ELSE walk(html, i + 1, importMap)

getImportMapFromHtml(html) == walk(html, 1, NoMap)

\* {"imports": {"react": "https://esm.sh/react@18.3.1"}}
ReactJson ==
  [type |-> "object",
   imports |-> [type |-> "object",
                entries |-> <<[k |-> str("react"),
                               v |-> [type |-> "string", s |-> str(ModuleUrl)]]>>],
   scopes |-> NoTable]

\* the texts of index.html that the file watcher may deliver: one without
\* and one with an import map
Htmls == {<<OtherNode>>, <<OtherNode, Script(ReactJson)>>}

keys(imports) == {imports[i].k : i \in 1..Len(imports)}
hasKey(imports, key) == key \in keys(imports)
\* imports[key], for a key of imports
valueOf(imports, key) == imports[CHOOSE i \in 1..Len(imports) : imports[i].k = key].v

isBlankImportMap(im) == Len(im.imports) = 0 /\ Len(im.scopes) = 0

isSameImports(a, b) ==
  /\ Cardinality(keys(a)) = Cardinality(keys(b))
  /\ \A k \in keys(a) : hasKey(b, k) /\ valueOf(a, k) = valueOf(b, k)

scopeNames(scopes) == {[origin |-> scopes[i].origin, pathname |-> scopes[i].pathname] :
                        i \in 1..Len(scopes)}
scopeOf(scopes, n) ==
  scopes[CHOOSE i \in 1..Len(scopes) :
           scopes[i].origin = n.origin /\ scopes[i].pathname = n.pathname].imports

isSame(a, b) ==
  /\ isSameImports(a.imports, b.imports)
  /\ \A n \in scopeNames(a.scopes) :
       n \in scopeNames(b.scopes)
         /\ isSameImports(scopeOf(a.scopes, n), scopeOf(b.scopes, n))

\* null
Null == <<"null", "null">>

\* a variant of the loop that drops the remainder of the specifier
RECURSIVE firstPrefixBare(_, _, _)
firstPrefixBare(specifier, imports, i) ==
  IF i > Len(imports) THEN Null
  ELSE LET k == imports[i].k
           v == imports[i].v
       IN IF endsWithSlash(k) /\ startsWith(specifier, k) THEN v
          ELSE IF ~endsWithSlash(k) /\ startsWith(specifier, k \o <<Slash>>) THEN v
          ELSE firstPrefixBare(specifier, imports, i + 1)

\* the loop of matchImportUrl over Object.entries(imports), from entry i
RECURSIVE firstPrefix(_, _, _)
firstPrefix(specifier, imports, i) ==
  IF i > Len(imports) THEN Null
  ELSE LET k == imports[i].k
           v == imports[i].v
       IN IF endsWithSlash(k)
          THEN IF startsWith(specifier, k)
               THEN v \o slice(specifier, Len(k))
               ELSE firstPrefix(specifier, imports, i + 1)
          ELSE IF startsWith(specifier, k \o <<Slash>>)
               THEN v \o slice(specifier, Len(k))
               ELSE firstPrefix(specifier, imports, i + 1)

matchImportUrl(specifier, imports) ==
  IF hasKey(imports, specifier) THEN valueOf(imports, specifier)
  ELSE firstPrefix(specifier, imports, 1)

\* if (match): null and the empty string are falsy
truthy(match) == match # Null /\ match # <<>>

\* a variant that leaves the scopes in the order of their declaration
sortScopesNot(scopes) == scopes

\* sameOriginScopes.sort(...): most pieces of split("/") first, stable
RECURSIVE sortScopes(_)
sortScopes(scopes) ==
  IF Len(scopes) = 0 THEN <<>>
  ELSE LET most == CHOOSE i \in 1..Len(scopes) :
                     /\ \A j \in 1..Len(scopes) :
                          splitLength(scopes[j].pathname) <= splitLength(scopes[i].pathname)
                     /\ \A j \in 1..(i - 1) :
                          splitLength(scopes[j].pathname) < splitLength(scopes[i].pathname)
           rest == [j \in 1..(Len(scopes) - 1) |->
                      IF j < most THEN scopes[j] ELSE scopes[j + 1]]
       IN <<scopes[most]>> \o sortScopes(rest)

\* the loop over the sorted scopes, from entry i
RECURSIVE firstScope(_, _, _, _)
firstScope(sorted, specifier, pathname, i) ==
  IF i > Len(sorted) THEN Null
  ELSE LET match == IF startsWith(pathname, sorted[i].pathname)
                    THEN matchImportUrl(specifier, sorted[i].imports)
                    ELSE Null
       IN IF truthy(match) THEN match
          ELSE firstScope(sorted, specifier, pathname, i + 1)

\* the origin of $baseURL ("file:///"), as URL.origin gives it
BaseOrigin == "null"
RemoteOrigin == "https://esm.sh"

\* the scopes whose URL has the given origin, in their order
sameOrigin(scopes, origin) ==
  LET Test(e) == e.origin = origin IN SelectSeq(scopes, Test)

\* a variant that asks the global table before the scopes
resolveGlobalFirst(importMap, specifier, containingFile) ==
  LET sameOriginScopes == sortScopes(sameOrigin(importMap.scopes, containingFile.origin))
      scoped == firstScope(sameOriginScopes, specifier, containingFile.pathname, 1)
      global == IF containingFile.origin = BaseOrigin
                THEN matchImportUrl(specifier, importMap.imports)
                ELSE Null
  IN IF truthy(global) THEN <<global, TRUE>>
     ELSE IF truthy(scoped) THEN <<scoped, TRUE>>
     ELSE <<specifier, FALSE>>

\* resolve(importMap, specifier, containingFile); containingFile is given as
\* the origin and the pathname of new URL(containingFile, $baseURL)
resolve(importMap, specifier, containingFile) ==
  LET sameOriginScopes == sortScopes(sameOrigin(importMap.scopes, containingFile.origin))
      scoped == firstScope(sameOriginScopes, specifier, containingFile.pathname, 1)
      global == IF containingFile.origin = BaseOrigin
                THEN matchImportUrl(specifier, importMap.imports)
                ELSE Null
  IN IF truthy(scoped) THEN <<scoped, TRUE>>
     ELSE IF truthy(global) THEN <<global, TRUE>>
     ELSE <<specifier, FALSE>>

\* new URL(containingFile, $baseURL) for the files of the plugin's universe
urlOf(cf) ==
  [origin |-> IF isHttpUrl(cf) THEN RemoteOrigin ELSE BaseOrigin, pathname |-> str(cf)]

\* the given import maps tried in turn; docs are the documents they come from
resolveSpecifierFromImportMaps(maps, docs, spec, cf) ==
  LET hit == [d \in docs |-> resolve(maps[d], str(spec), urlOf(cf))]
      hits == {d \in docs : hit[d][2]}
  IN IF hits # {}
     THEN <<hit[CHOOSE d \in hits : TRUE][1][1], TRUE>>
     ELSE <<spec, FALSE>>

\* containingFile.startsWith(fp.slice(0, -10)), fp the path of an index.html
inScopeOf(cf, doc) == doc = IndexHtml /\ cf = LocalFile

(***************************************************************************)
(* Responses and cache metadata.                                           *)
(***************************************************************************)
NullRes == [status |-> 0, redirected |-> FALSE, url |-> NoUrl, dts |-> NoUrl, maxAge |-> -1]
Response(st, u, dts, ma) ==
  [status |-> st, redirected |-> FALSE, url |-> u, dts |-> dts, maxAge |-> ma]
ok(res) == res.status >= 200 /\ res.status <= 299

NoMeta == [code |-> 0, url |-> NoUrl, location |-> NoUrl, dts |-> NoUrl, maxAge |-> -1, age |-> 0]
Meta(code, u, loc, dts, ma) ==
  [code |-> code, url |-> u, location |-> loc, dts |-> dts, maxAge |-> ma, age |-> 0]

\* a metadata file that JSON.parse rejects
CorruptMeta == [code |-> -1, url |-> NoUrl, location |-> NoUrl, dts |-> NoUrl, maxAge |-> -1, age |-> 0]
isCorrupt(meta) == meta.code = -1

\* what the network may answer to fetch(u, {redirect: "manual"}); "throw" is a
\* rejected promise
SiblingOf(u) == IF u = ModuleUrl THEN {NoUrl, DtsUrl} ELSE {NoUrl}
NetOutcomes(u) ==
  {Response(404, u, NoUrl, -1), Response(301, u, NoUrl, -1)}
  \cup {Response(200, u, d, ma) : d \in SiblingOf(u), ma \in MaxAges}
Throw == [status |-> -1, redirected |-> FALSE, url |-> NoUrl, dts |-> NoUrl, maxAge |-> -1]

\* cache.getStorePath(url): the host esm.sh maps to the root of the store
getStorePath(u) ==
  CASE u = ModuleUrl -> "/home/.cache/esm.sh/react@18.3.1"
    [] u = DtsUrl -> "/home/.cache/esm.sh/react@18.3.1/index.d.ts"
    [] OTHER -> StoreFile

\* a variant that expires an entry at the last millisecond of its life
expiredEarly(meta) == meta.age >= meta.maxAge * 1000

\* meta.ctime + parseInt(maxAge) * 1000 < Date.now()
expired(meta) == meta.age > meta.maxAge * 1000

\* cache.query(url): the response and the metadata directory afterwards
queryRes(disk, u) ==
  LET meta == disk[u] IN
  IF meta = NoMeta \/ isCorrupt(meta) THEN NullRes
  ELSE IF meta.location # NoUrl
    THEN [status |-> meta.code, redirected |-> TRUE, url |-> meta.url,
          dts |-> NoUrl, maxAge |-> -1]
  ELSE IF meta.maxAge < 0 \/ expired(meta) THEN NullRes
  ELSE [status |-> 200, redirected |-> FALSE, url |-> meta.url,
        dts |-> meta.dts, maxAge |-> meta.maxAge]

\* a variant that leaves every metadata file in place
queryDiskKeeping(disk, u) == disk

queryDisk(disk, u) ==
  LET meta == disk[u] IN
  IF meta # NoMeta /\ (isCorrupt(meta) \/
       (meta.location = NoUrl /\ (meta.maxAge < 0 \/ expired(meta))))
  THEN [disk EXCEPT ![u] = NoMeta]
  ELSE disk

\* cache.head(url): the response, without a look at max-age, and the
\* metadata directory afterwards
headRes(disk, u) ==
  LET meta == disk[u] IN
  IF meta = NoMeta \/ isCorrupt(meta) THEN NullRes
  ELSE [status |-> meta.code, redirected |-> FALSE, url |-> NoUrl,
        dts |-> meta.dts, maxAge |-> meta.maxAge]

headDisk(disk, u) ==
  IF isCorrupt(disk[u]) THEN [disk EXCEPT ![u] = NoMeta] ELSE disk

(***************************************************************************)
(* cache.fetch(url), cut at its suspension points.                         *)
(***************************************************************************)
\* lines 110-137, run when the network answers r to fetch(u):
\* out = "reject" (the promise rejects), "return" (res is returned) or
\* "pipe" (res is returned once the body is written to the store)
cacheFetchOnNet(disk, u, r) ==
  IF r = Throw THEN [disk |-> disk, out |-> "reject", res |-> NullRes]
  ELSE IF r.status = 302 \/ r.status = 301 THEN
    [disk |-> [disk EXCEPT ![u] = Meta(r.status, u, r.url, NoUrl, -1)],
     out |-> "return", res |-> r]
  ELSE IF ~ok(r) THEN [disk |-> disk, out |-> "return", res |-> r]
  ELSE IF r.maxAge < 0 THEN [disk |-> disk, out |-> "return", res |-> r]
  ELSE [disk |-> [disk EXCEPT ![u] = Meta(200, r.url, NoUrl, r.dts, r.maxAge)],
        out |-> IF isDts(u) THEN "pipe" ELSE "return",
        res |-> Response(200, r.url, r.dts, r.maxAge)]

(***************************************************************************)
(* Background tasks: the promise chains stored in fetchPromises.           *)
(***************************************************************************)
Task(kind, u, pc, furl, res) ==
  [kind |-> kind, url |-> u, pc |-> pc, furl |-> furl, res |-> res]

NoPath == "none"

\* the part of the plugin state that resolveModuleName and the promise
\* reactions read and write
World(um, tm, hi, bi, fp, tk, dk, fc) ==
  [um |-> um, tm |-> tm, hi |-> hi, bi |-> bi, fp |-> fp, tasks |-> tk,
   disk |-> dk, fc |-> fc, href |-> NoUrl, pre |-> "none", started |-> 0,
   net |-> FALSE]

Undefined == [resolvedFileName |-> "undefined", extension |-> "none"]
\* RangeError: Maximum call stack size exceeded
StackOverflow == [resolvedFileName |-> "throws", extension |-> "none"]
Resolved(f, e) == [resolvedFileName |-> f, extension |-> e]

\* the state of a URL as resolveModuleName finds it at line 259
Classify(w, u) ==
  IF u \in w.bi THEN "bad"
  ELSE IF w.um[u] # NoUrl \/ w.tm[u] # NoPath \/ u \in w.hi THEN "known"
  ELSE IF queryRes(w.disk, u) # NullRes THEN "cached"
  ELSE IF u \in w.fp THEN "pending"
  ELSE "unknown"

\* line 259
isBadSkipped(w, href) == FALSE
isBad(w, href) == href \in w.bi

\* line 348: the provisional answer while the URL is unknown or pending
provisionalNone(href) == Undefined
provisional(href) == Resolved(href, ".js")

\* a variant that forgets line 306 and starts a task on every call
startFetchAlways(w, href, autoFetch) ==
  LET hit == queryRes(w.disk, href) # NullRes
      task == IF autoFetch /\ ~hit
              THEN Task("module", href, "net", href, NullRes)
              ELSE Task("module", href, "then", href, queryRes(w.disk, href))
  IN [w EXCEPT !.fp = @ \cup {href},
               !.tasks = @ (+) SetToBag({task}),
               !.disk = queryDisk(w.disk, href),
               !.fc = IF autoFetch /\ ~hit THEN @ + 1 ELSE @,
               !.net = @ \/ (autoFetch /\ ~hit),
               !.started = @ + 1]

\* lines 306-347: the background task is created unless one is recorded
startFetch(w, href, autoFetch) ==
  IF href \in w.fp THEN w
  ELSE
    LET res == queryRes(w.disk, href)
        dk == queryDisk(w.disk, href)
        hit == res # NullRes
        task == IF autoFetch /\ ~hit
                THEN Task("module", href, "net", href, NullRes)
                ELSE Task("module", href, "then", href, res)
    IN [w EXCEPT !.fp = @ \cup {href},
                 !.tasks = @ (+) SetToBag({task}),
                 !.disk = dk,
                 !.fc = IF autoFetch /\ ~hit THEN @ + 1 ELSE @,
                 !.net = @ \/ (autoFetch /\ ~hit),
                 !.started = @ + 1]

\* lines 277-305: the synchronous look into the local cache; res is the hit
localCheck(w, href, res) ==
  IF res.dts # NoUrl /\ queryRes(w.disk, res.dts) # NullRes THEN
    LET dtsRes == queryRes(w.disk, res.dts)
        path == getStorePath(dtsRes.url)
    IN [w |-> [w EXCEPT !.tm[href] = path, !.disk = queryDisk(w.disk, res.dts)],
        result |-> Resolved(path, getScriptExtension(path))]
  ELSE IF res.dts = NoUrl /\ isDts(href) THEN
    [w |-> [w EXCEPT !.tm[href] = getStorePath(href)],
     result |-> Resolved(getStorePath(href), getScriptExtension(getStorePath(href)))]
  ELSE
    [w |-> [w EXCEPT !.hi = @ \cup {href},
                     !.disk = IF res.dts # NoUrl THEN queryDisk(w.disk, res.dts) ELSE @],
     result |-> Resolved(href, ".js")]

\* lines 203-228: the specifier after the import maps, those in whose
\* scope the containing file lies first, and whether a map resolved it
resolveWithImportMaps(maps, specifier, containingFile) ==
  LET loaded == {d \in Docs : maps[d] # NoMap}
      scoped == {d \in loaded : inScopeOf(containingFile, d)}
      r1 == resolveSpecifierFromImportMaps(maps, scoped, specifier, containingFile)
  IN IF r1[2] THEN r1
     ELSE resolveSpecifierFromImportMaps(maps, loaded, specifier, containingFile)

\* a variant that remembers the specifier it declined among the bad imports
declineRemembering(w, spec) == [w |-> [w EXCEPT !.bi = @ \cup {spec}], result |-> Undefined]

\* lines 229-231: return undefined, the specifier is left to the host
decline(w, spec) == [w |-> w, result |-> Undefined]

\* a variant that goes to the network for every unknown URL
autoFetchAlways(importMapResolved, containingFile, moduleHref) == TRUE

\* lines 307-310: whether an unknown URL is fetched from the network
autoFetch(importMapResolved, containingFile, moduleHref) ==
  \/ importMapResolved
  \/ isHttpUrl(containingFile)
  \/ inStoreDir(containingFile)
  \/ isWellKnownCDNURL(moduleHref)

RECURSIVE resolveModuleName(_, _, _, _, _)

\* lines 229-348, with the specifier and the flag that lines 203-228 left
resolveUrl(w, maps, spec, importMapResolved, containingFile, depth) ==
  LET moduleHref == newURL(spec, containingFile)
  IN
  IF ~importMapResolved /\ ~isHttpUrl(spec) /\ ~isRelativePath(spec)
    THEN decline(w, spec)
  ELSE IF isFileProtocol(moduleHref) THEN
    IF inStoreDir(containingFile)
    THEN resolveModuleName(w, maps, spec, storeFileToUrl(containingFile), depth + 1)
    ELSE [w |-> w, result |-> Undefined]
  ELSE
  LET w0 == IF w.href = NoUrl
            THEN [w EXCEPT !.href = moduleHref, !.pre = Classify(w, moduleHref)]
            ELSE w
      res == queryRes(w0.disk, moduleHref)
      w1 == [w0 EXCEPT !.disk = queryDisk(w0.disk, moduleHref)]
  IN
  IF isBad(w0, moduleHref) THEN [w |-> w0, result |-> Undefined]
  ELSE IF w0.um[moduleHref] # NoUrl
    THEN resolveModuleName(w0, maps, w0.um[moduleHref], containingFile, depth + 1)
  ELSE IF w0.tm[moduleHref] # NoPath
    THEN [w |-> w0, result |-> Resolved(w0.tm[moduleHref], getScriptExtension(w0.tm[moduleHref]))]
  ELSE IF moduleHref \in w0.hi
    THEN [w |-> w0, result |-> Resolved(moduleHref, ".js")]
  ELSE IF res # NullRes THEN
    IF res.redirected
    THEN resolveModuleName([w1 EXCEPT !.um[moduleHref] = res.url], maps, res.url,
                           containingFile, depth + 1)
    ELSE localCheck(w1, moduleHref, res)
  ELSE
    [w |-> startFetch(w1, moduleHref, autoFetch(importMapResolved, containingFile, moduleHref)),
     result |-> provisional(moduleHref)]

resolveModuleName(w, maps, specifier, containingFile, depth) ==
  IF depth > MaxDepth THEN [w |-> w, result |-> StackOverflow]
  ELSE LET r == resolveWithImportMaps(maps, specifier, containingFile)
       IN resolveUrl(w, maps, r[1], r[2], containingFile, depth)

(***************************************************************************)
(* The hook on resolveModuleNameLiterals (lines 116-164).                  *)
(***************************************************************************)
\* a result of the host's own resolution, for example types in node_modules
HostResolved == [resolvedFileName |-> "/proj/node_modules/react/index.d.ts",
                 extension |-> ".d.ts"]

\* a variant without the try/catch around resolveModuleName
resolveLiteralThrowing(w, maps, literal, hostResolved, containingFile) ==
  IF hostResolved THEN [w |-> w, result |-> HostResolved]
  ELSE resolveModuleName(w, maps, literal, containingFile, 0)

\* a variant that asks resolveModuleName whatever the host resolved
resolveLiteralAlways(w, maps, literal, hostResolved, containingFile) ==
  LET r == resolveModuleName(w, maps, literal, containingFile, 0)
  IN IF r.result = StackOverflow THEN [w |-> r.w, result |-> Undefined]
     ELSE IF hostResolved THEN [w |-> r.w, result |-> HostResolved]
     ELSE r

\* lines 147-162: the callback of resolvedModules.map for one literal; w is
\* the state that the literals before it left
resolveLiteral(w, maps, literal, hostResolved, containingFile) ==
  IF hostResolved THEN [w |-> w, result |-> HostResolved]
  ELSE LET r == resolveModuleName(w, maps, literal, containingFile, 0)
       IN IF r.result = StackOverflow
          THEN [w |-> r.w, result |-> Undefined]
          ELSE r

\* resolvedModules.map(...) from literal i on; results holds the results of
\* the literals before it
RECURSIVE resolveModuleNameLiterals(_, _, _, _, _, _, _)
resolveModuleNameLiterals(w, maps, literals, host, containingFile, i, results) ==
  IF i > Len(literals) THEN [w |-> w, results |-> results]
  ELSE LET r == resolveLiteral([w EXCEPT !.href = NoUrl, !.pre = "none"],
                               maps, literals[i], host[i], containingFile)
       IN resolveModuleNameLiterals(r.w, maps, literals, host, containingFile,
                                    i + 1, Append(results, r.result))

(***************************************************************************)
(* The reactions of a background task.                                     *)
(***************************************************************************)
\* a variant that keeps the collections exclusive by demoting the URL
moduleDtsDemoting(w, u, dtsRes) ==
  IF ok(dtsRes)
  THEN [w EXCEPT !.tm[u] = getStorePath(dtsRes.url), !.hi = @ \ {u}]
  ELSE [w EXCEPT !.bi = @ \cup {u}, !.hi = @ \ {u}]

\* a variant that takes a module without its declaration file as a runtime
\* import
moduleDtsRuntime(w, u, dtsRes) ==
  IF ok(dtsRes)
  THEN [w EXCEPT !.tm[u] = getStorePath(dtsRes.url)]
  ELSE [w EXCEPT !.hi = @ \cup {u}]

\* lines 325-331: the sibling declaration file answered dtsRes
moduleDts(w, u, dtsRes) ==
  IF ok(dtsRes)
  THEN [w EXCEPT !.tm[u] = getStorePath(dtsRes.url)]
  ELSE [w EXCEPT !.bi = @ \cup {u}]

\* a variant that leaves the in-flight marker behind
finallyKeeping(w, t) == w

\* .finally() of both kinds of task: the in-flight marker is removed
finally(w, t) == [w EXCEPT !.fp = @ \ {t.url}]

\* The reactions that run once cache.fetch(t.furl) has settled for task t,
\* with res, or rejected.  w no longer holds t.  The result tells whether
\* the task settled (and how) or waits for the sibling declaration file.
continueTask(w, t, res, rejected) ==
  IF rejected THEN
    [w |-> finally(w, t), settled |-> TRUE,
     outcome |-> IF t.pc \in {"dtsnet", "dtspipe"} THEN "dts-throw" ELSE "throw"]
  ELSE IF t.kind = "missing" THEN
    \* lines 132-142
    [w |-> finally(IF ~ok(res) THEN [w EXCEPT !.bi = @ \cup {t.url}] ELSE w, t),
     settled |-> TRUE, outcome |-> IF ok(res) THEN "ok" ELSE "status"]
  ELSE IF t.pc \in {"dtsnet", "dtspipe"} THEN
    [w |-> finally(moduleDts(w, t.url, res), t), settled |-> TRUE,
     outcome |-> IF ok(res) THEN "ok" ELSE "dts-status"]
  \* lines 314-339
  ELSE IF res = NullRes THEN
    [w |-> finally([w EXCEPT !.hi = @ \cup {t.url}], t), settled |-> TRUE,
     outcome |-> "miss"]
  ELSE IF res.redirected THEN
    [w |-> finally([w EXCEPT !.um[t.url] = res.url], t), settled |-> TRUE,
     outcome |-> "ok"]
  ELSE IF ok(res) THEN
    IF res.dts # NoUrl THEN
      \* await cache.fetch(new URL(dts, res.url))
      LET dtsRes == queryRes(w.disk, res.dts)
          w1 == [w EXCEPT !.disk = queryDisk(w.disk, res.dts)]
      IN IF dtsRes # NullRes
         THEN [w |-> finally(moduleDts(w1, t.url, dtsRes), t), settled |-> TRUE,
               outcome |-> IF ok(dtsRes) THEN "ok" ELSE "dts-status"]
         ELSE [w |-> [w1 EXCEPT
                        !.tasks = @ (+) SetToBag({Task("module", t.url, "dtsnet", res.dts, NullRes)}),
                        !.fc = @ + 1, !.net = TRUE],
               settled |-> FALSE, outcome |-> "pending"]
    ELSE IF isDts(t.url) THEN
      [w |-> finally([w EXCEPT !.tm[t.url] = getStorePath(t.url)], t), settled |-> TRUE,
       outcome |-> "ok"]
    ELSE
      [w |-> finally([w EXCEPT !.hi = @ \cup {t.url}], t), settled |-> TRUE,
       outcome |-> "ok"]
  ELSE
    [w |-> finally([w EXCEPT !.bi = @ \cup {t.url}], t), settled |-> TRUE,
     outcome |-> "status"]

(***************************************************************************)
(* The speculative fetch of missing declaration files (lines 121-146).     *)
(***************************************************************************)
\* cache.restoreUrl(filename), the inverse of getStorePath
restoreUrl(path) == CHOOSE u \in Urls : getStorePath(u) = path
StorePaths == {getStorePath(u) : u \in Urls}

\* a variant that does not look at #fetchPromises
fetchMissingAlways(w, filename) ==
  LET refHref == restoreUrl(filename)
  IN IF isDts(refHref) /\ refHref \notin w.bi /\ queryRes(w.disk, refHref) = NullRes
     THEN [w EXCEPT !.fp = @ \cup {refHref},
                    !.tasks = @ (+) SetToBag({Task("missing", refHref, "net", refHref, NullRes)}),
                    !.fc = @ + 1, !.net = TRUE, !.started = @ + 1]
     ELSE w

\* one element of missingFiles.forEach
fetchMissing(w, filename) ==
  LET refHref == restoreUrl(filename)
      res == queryRes(w.disk, refHref)
      w1 == [w EXCEPT !.disk = queryDisk(w.disk, refHref)]
  IN IF isDts(refHref) /\ refHref \notin w.bi /\ refHref \notin w.fp THEN
       IF res # NullRes
       \* a hit of the local cache: the promise settles within the same turn
       THEN continueTask([w1 EXCEPT !.fp = @ \cup {refHref}],
                         Task("missing", refHref, "then", refHref, res), res, FALSE).w
       ELSE [w1 EXCEPT !.fp = @ \cup {refHref},
                       !.tasks = @ (+) SetToBag({Task("missing", refHref, "net", refHref, NullRes)}),
                       !.fc = @ + 1, !.net = TRUE, !.started = @ + 1]
     ELSE w

RECURSIVE fetchMissingFiles(_, _)
fetchMissingFiles(w, files) ==
  IF files = {} THEN w
  ELSE LET f == CHOOSE x \in files : TRUE
       IN fetchMissingFiles(fetchMissing(w, f), files \ {f})

(***************************************************************************)
(* debunce(fn, ms), lines 445-455.                                         *)
(***************************************************************************)
TimerIds == 1..8
NoTimer == 0
\* setTimeout hands out a handle that no live or remembered timer uses
newTimerId(tmr, tmrs) ==
  CHOOSE i \in TimerIds : i # tmr /\ \A x \in tmrs : x.id # i

\* a variant without clearTimeout
debunceTimersKeeping(tmr, tmrs) ==
  tmrs \cup {[id |-> newTimerId(tmr, tmrs), left |-> DebounceMs]}

\* one call of the debounced function: the timers pending afterwards
debunceTimers(tmr, tmrs) ==
  LET cleared == IF tmr # NoTimer THEN {x \in tmrs : x.id # tmr} ELSE tmrs
  IN cleared \cup {[id |-> newTimerId(tmr, cleared), left |-> DebounceMs]}

\* the handle kept in the closure afterwards
debunceTimer(tmr, tmrs) ==
  LET new == debunceTimers(tmr, tmrs)
  IN (CHOOSE x \in new : x.left = DebounceMs /\ x.id # tmr).id

(***************************************************************************)
(* State.                                                                  *)
(***************************************************************************)
VARIABLES
  importMaps,     \* #importMaps: document -> import map (NoMap: no entry)
  urlMappings,    \* #urlMappings: URL -> redirect target (NoUrl: no entry)
  typesMappings,  \* #typesMappings: URL -> declaration file (NoPath: no entry)
  httpImports,    \* #httpImports
  badImports,     \* #badImports
  fetchPromises,  \* keys of #fetchPromises
  tasks,          \* bag of the promise chains that have not settled
  disk,           \* metadata directory of the cache: URL -> CacheMeta
  bodies,         \* URLs whose body file exists in the store
  timer,          \* the handle kept by debunce
  timers,         \* timers pending in the event loop
  fetchCalls,     \* network requests issued so far
  configChanges,  \* configuration changes delivered so far
  last,           \* history: the resolveModuleName call, if the last step was one
  turn,           \* history: the calls of the current synchronous turn
  failed,         \* history: URLs whose module fetch settled with a failure
  hist            \* history of the debounced refresh: the time since its last
                  \* trigger (up to DebounceMs), whether that trigger came less
                  \* than DebounceMs after the one before, the refreshes run since

vars == <<importMaps, urlMappings, typesMappings, httpImports, badImports,
          fetchPromises, tasks, disk, bodies, timer, timers, fetchCalls,
          configChanges, last, turn, failed, hist>>

NoLast == [op |-> "none", url |-> NoUrl, pre |-> "none", result |-> Undefined]
NoTurn == [url |-> NoUrl, calls |-> 0, started |-> 0]

\* everything but the import maps
InitPlugin ==
  /\ urlMappings = [u \in Urls |-> NoUrl]
  /\ typesMappings = [u \in Urls |-> NoPath]
  /\ httpImports = {}
  /\ badImports = {}
  /\ fetchPromises = {}
  /\ tasks = EmptyBag
  /\ disk = [u \in Urls |-> NoMeta]
  /\ bodies = {}
  /\ timer = NoTimer
  /\ timers = {}
  /\ fetchCalls = 0
  /\ configChanges = 0
  /\ last = NoLast
  /\ turn = NoTurn
  /\ failed = {}
  /\ hist = [since |-> DebounceMs, coalesced |-> FALSE, runs |-> 0]

Init ==
  /\ importMaps = [d \in Docs |-> NoMap]
  /\ InitPlugin

TheWorld ==
  World(urlMappings, typesMappings, httpImports, badImports, fetchPromises,
        tasks, disk, fetchCalls)

\* number of tasks in flight for a URL
TasksFor(bag, u) ==
  LET ts == {t \in BagToSet(bag) : t.url = u}
      RECURSIVE sum(_)
      sum(S) == IF S = {} THEN 0
                ELSE LET t == CHOOSE x \in S : TRUE
                     IN CopiesIn(t, bag) + sum(S \ {t})
  IN sum(ts)

\* promise reactions that are runnable now (they run before any macrotask)
Microtasks == {t \in BagToSet(tasks) : t.pc = "then"}

SetWorld(w) ==
  /\ urlMappings' = w.um
  /\ typesMappings' = w.tm
  /\ httpImports' = w.hi
  /\ badImports' = w.bi
  /\ fetchPromises' = w.fp
  /\ tasks' = w.tasks
  /\ disk' = w.disk
  /\ fetchCalls' = w.fc

\* this.#updateGraph(): one call of the debounced refresh
UpdateGraph ==
  /\ timers' = debunceTimers(timer, timers)
  /\ timer' = debunceTimer(timer, timers)
  /\ hist' = [since |-> 0, coalesced |-> hist.since < DebounceMs, runs |-> 0]

NoUpdateGraph == UNCHANGED <<timer, timers, hist>>

(***************************************************************************)
(* Actions.                                                                *)
(***************************************************************************)
\* The host calls resolveModuleName(specifier, containingFile); observed
\* tells whether the history variables record the call.
Call(specifier, containingFile, observed) ==
  \E r \in {resolveModuleName(TheWorld, importMaps, specifier, containingFile, 0)} :
  LET u == r.w.href
      made == IF u = NoUrl THEN 0 ELSE TasksFor(r.w.tasks, u) - TasksFor(tasks, u)
  IN /\ r.w.fc <= MaxFetchCalls
     /\ observed => ~(turn.url # NoUrl /\ turn.url = u /\ turn.calls >= MaxTurnCalls)
     /\ SetWorld(r.w)
     /\ last' = IF observed
                THEN [op |-> "resolve", url |-> u, pre |-> r.w.pre, result |-> r.result]
                ELSE NoLast
     /\ turn' = IF ~observed THEN NoTurn
                ELSE IF turn.url = NoUrl /\ r.w.pre = "unknown"
                  THEN [url |-> u, calls |-> 1, started |-> made]
                ELSE IF turn.url # NoUrl /\ turn.url = u
                  THEN [turn EXCEPT !.calls = @ + 1, !.started = @ + made]
                ELSE turn
     /\ NoUpdateGraph
     /\ UNCHANGED <<importMaps, bodies, configChanges, failed>>

ResolveModuleName(specifier, containingFile) == Call(specifier, containingFile, TRUE)

\* the same call, left out of the history
ResolveModuleNameQuiet(specifier, containingFile) == Call(specifier, containingFile, FALSE)

\* The reactions of task t after cache.fetch settled; shared by the three
\* steps below.
Continue(t, w, res, rejected) ==
  \E c \in {continueTask([w EXCEPT !.tasks = @ (-) SetToBag({t})], t, res, rejected)} :
     /\ c.w.fc <= MaxFetchCalls
     /\ SetWorld(c.w)
     /\ IF c.settled /\ t.kind = "module" THEN UpdateGraph ELSE NoUpdateGraph
     /\ last' = NoLast
     /\ failed' = IF t.kind = "module" /\ c.outcome \in {"throw", "status"}
                    THEN failed \cup {t.url} ELSE failed
     /\ turn' = NoTurn

\* A promise that was already resolved runs its reactions.
PromiseThen(t) ==
  /\ t \in Microtasks
  /\ Continue(t, TheWorld, t.res, FALSE)
  /\ UNCHANGED <<importMaps, bodies, configChanges>>

\* The network answers the request of task t.
NetResponse(t, r) ==
  /\ Microtasks = {}
  /\ t \in BagToSet(tasks)
  /\ t.pc \in {"net", "dtsnet"}
  /\ LET c == cacheFetchOnNet(disk, t.furl, r)
         w == [TheWorld EXCEPT !.disk = c.disk]
     IN IF c.out = "pipe"
        THEN /\ SetWorld([w EXCEPT !.tasks = (@ (-) SetToBag({t})) (+)
                             SetToBag({Task(t.kind, t.url,
                                            IF t.pc = "net" THEN "pipe" ELSE "dtspipe",
                                            t.furl, c.res)})])
             /\ last' = NoLast
             /\ turn' = NoTurn
             /\ NoUpdateGraph
             /\ UNCHANGED failed
        ELSE Continue(t, w, c.res, c.out = "reject")
  /\ UNCHANGED <<importMaps, bodies, configChanges>>

\* The body of a declaration file has been written to the store.
PipeDone(t) ==
  /\ Microtasks = {}
  /\ t \in BagToSet(tasks)
  /\ t.pc \in {"pipe", "dtspipe"}
  /\ bodies' = bodies \cup {t.furl}
  /\ Continue(t, TheWorld, t.res, FALSE)
  /\ UNCHANGED <<importMaps, configChanges>>

\* The timer callback of the resolveModuleNameLiterals hook runs with the
\* files that the project misses in the store.
MissingFilesFetch(files) ==
  /\ Microtasks = {}
  /\ \E w \in {fetchMissingFiles(TheWorld, files)} :
        /\ w.fc <= MaxFetchCalls
        /\ SetWorld(w)
        /\ last' = NoLast
  /\ turn' = NoTurn
  /\ NoUpdateGraph
  /\ UNCHANGED <<importMaps, bodies, configChanges, failed>>

\* the body of onConfigurationChanged
ConfigurationChanged(filepath, html) ==
  /\ configChanges' = configChanges + 1
  /\ \E importMap \in {getImportMapFromHtml(html)} :
       LET oldImportMap == importMaps[filepath]
       IN IF oldImportMap = NoMap \/ ~isSame(importMap, oldImportMap)
          THEN /\ importMaps' = [importMaps EXCEPT ![filepath] =
                                   IF isBlankImportMap(importMap) THEN NoMap ELSE importMap]
               /\ UpdateGraph
          ELSE /\ UNCHANGED importMaps
               /\ NoUpdateGraph
  /\ turn' = NoTurn
  /\ UNCHANGED <<urlMappings, typesMappings, httpImports, badImports, fetchPromises,
                 tasks, disk, bodies, fetchCalls, failed>>

\* onConfigurationChanged({indexHtml: [filepath, html]})
OnConfigurationChanged(filepath, html) ==
  /\ Microtasks = {}
  /\ configChanges < MaxConfigChanges
  /\ ConfigurationChanged(filepath, html)
  /\ last' = NoLast

\* The debounce timer fires: clearSemanticCache(project); project.updateGraph()
TimerFire(x) ==
  /\ Microtasks = {}
  /\ x \in timers
  /\ x.left = 0
  /\ timers' = timers \ {x}
  /\ hist' = [hist EXCEPT !.runs = @ + 1]
  /\ last' = NoLast
  /\ turn' = NoTurn
  /\ UNCHANGED <<importMaps, urlMappings, typesMappings, httpImports, badImports,
                 fetchPromises, tasks, disk, bodies, timer, fetchCalls, configChanges,
                 failed>>

\* TickMs milliseconds pass.
AgeCap == 1000 + TickMs
Min(a, b) == IF a < b THEN a ELSE b
Max(a, b) == IF a > b THEN a ELSE b
Tick ==
  /\ Microtasks = {}
  /\ timers' = {[x EXCEPT !.left = Max(0, @ - TickMs)] : x \in timers}
  /\ disk' = [u \in Urls |->
               IF disk[u] = NoMeta \/ isCorrupt(disk[u]) \/ disk[u].location # NoUrl THEN disk[u]
               ELSE [disk[u] EXCEPT !.age = Min(AgeCap, @ + TickMs)]]
  /\ hist' = [hist EXCEPT !.since = Min(DebounceMs, @ + TickMs)]
  /\ last' = NoLast
  /\ turn' = NoTurn
  /\ UNCHANGED <<importMaps, urlMappings, typesMappings, httpImports, badImports,
                 fetchPromises, tasks, bodies, timer, fetchCalls, configChanges, failed>>

Next ==
  \/ \E s \in Specifiers, c \in ContainingFiles : ResolveModuleName(s, c)
  \/ \E t \in BagToSet(tasks) : PromiseThen(t)
  \/ \E t \in BagToSet(tasks) : \E r \in NetOutcomes(t.furl) \cup {Throw} : NetResponse(t, r)
  \/ \E t \in BagToSet(tasks) : PipeDone(t)
  \/ \E files \in SUBSET StorePaths : MissingFilesFetch(files)
  \/ \E d \in Docs, h \in Htmls : OnConfigurationChanged(d, h)
  \/ \E x \in timers : TimerFire(x)
  \/ Tick

Spec == Init /\ [][Next]_vars

\* The network answers every request, file writes end, promise reactions run,
\* time passes and due timers fire.
Fairness ==
  /\ WF_vars(\E t \in BagToSet(tasks) : PromiseThen(t))
  /\ WF_vars(\E t \in BagToSet(tasks) : \E r \in NetOutcomes(t.furl) \cup {Throw} : NetResponse(t, r))
  /\ WF_vars(\E t \in BagToSet(tasks) : PipeDone(t))
  /\ WF_vars(\E x \in timers : TimerFire(x))
  /\ WF_vars(Tick)

\* The same program without the history of the calls, for the properties of
\* whole behaviours.
NextLive ==
  \/ \E s \in Specifiers, c \in ContainingFiles : ResolveModuleNameQuiet(s, c)
  \/ \E t \in BagToSet(tasks) : PromiseThen(t)
  \/ \E t \in BagToSet(tasks) : \E r \in NetOutcomes(t.furl) \cup {Throw} : NetResponse(t, r)
  \/ \E t \in BagToSet(tasks) : PipeDone(t)
  \/ \E files \in SUBSET StorePaths : MissingFilesFetch(files)
  \/ \E d \in Docs, h \in Htmls : OnConfigurationChanged(d, h)
  \/ \E x \in timers : TimerFire(x)
  \/ Tick

FairSpec == Init /\ [][NextLive]_vars /\ Fairness

(***************************************************************************)
(* The cache on its own: fetch, query and head called by a client, the     *)
(* metadata and body files of the store, and the clock.                    *)
(***************************************************************************)
\* max-age directives of the answers: none (-1), max-age=0, max-age=1
CacheMaxAges == MaxAges \cup {0}
CacheNetOutcomes(u) ==
  NetOutcomes(u) \cup {Response(200, u, d, ma) : d \in SiblingOf(u), ma \in CacheMaxAges}

CacheTasks == {t \in BagToSet(tasks) : t.kind = "cache"}

\* what the metadata file of a URL holds when an operation starts
metaState(meta) ==
  IF meta = NoMeta THEN "none"
  ELSE IF isCorrupt(meta) THEN "corrupt"
  ELSE IF meta.location # NoUrl THEN "redirect"
  ELSE IF meta.age > meta.maxAge * 1000 THEN "stale"
  ELSE "fresh"

CacheLast(op, u, pre, res) == [op |-> op, url |-> u, pre |-> pre, result |-> res]

CacheFrame ==
  UNCHANGED <<importMaps, urlMappings, typesMappings, httpImports, badImports,
              fetchPromises, timer, timers, configChanges, turn, failed, hist>>

\* cache.fetch(url) up to its first suspension: the answer of the local
\* cache, or the request sent to the network
CacheFetch(u) ==
  LET cachedResponse == queryRes(disk, u)
  IN /\ disk' = queryDisk(disk, u)
     /\ IF cachedResponse # NullRes
        THEN /\ last' = CacheLast("fetch", u, metaState(disk[u]), cachedResponse)
             /\ UNCHANGED <<tasks, fetchCalls>>
        ELSE /\ fetchCalls < MaxCacheFetches
             /\ fetchCalls' = fetchCalls + 1
             /\ tasks' = tasks (+) SetToBag({Task("cache", u, "net", u, NullRes)})
             /\ last' = CacheLast("fetch", u, metaState(disk[u]), NullRes)
     /\ UNCHANGED bodies
     /\ CacheFrame

\* the network answers r: cache.fetch runs on to its return or to the write
\* of the body
CacheNet(t, r) ==
  /\ t \in CacheTasks /\ t.pc = "net"
  /\ LET c == cacheFetchOnNet(disk, t.furl, r)
     IN /\ disk' = c.disk
        /\ IF c.out = "pipe"
           THEN /\ tasks' = (tasks (-) SetToBag({t})) (+)
                               SetToBag({Task("cache", t.url, "pipe", t.furl, c.res)})
                /\ last' = CacheLast("fetch", t.url, "pipe", NullRes)
           ELSE /\ tasks' = tasks (-) SetToBag({t})
                /\ last' = CacheLast("fetched", t.url, c.out, c.res)
  /\ UNCHANGED <<bodies, fetchCalls>>
  /\ CacheFrame

\* the body is written: cache.fetch returns
CachePipe(t) ==
  /\ t \in CacheTasks /\ t.pc = "pipe"
  /\ bodies' = bodies \cup {t.furl}
  /\ tasks' = tasks (-) SetToBag({t})
  /\ last' = CacheLast("fetched", t.url, "return", t.res)
  /\ UNCHANGED <<disk, fetchCalls>>
  /\ CacheFrame

\* cache.query(url)
CacheQuery(u) ==
  /\ last' = CacheLast("query", u, metaState(disk[u]), queryRes(disk, u))
  /\ disk' = queryDisk(disk, u)
  /\ UNCHANGED <<tasks, bodies, fetchCalls>>
  /\ CacheFrame

\* cache.head(url)
CacheHead(u) ==
  /\ last' = CacheLast("head", u, metaState(disk[u]), headRes(disk, u))
  /\ disk' = headDisk(disk, u)
  /\ UNCHANGED <<tasks, bodies, fetchCalls>>
  /\ CacheFrame

\* the metadata file of a URL is damaged behind the back of the cache
CorruptFile(u) ==
  /\ disk[u] # NoMeta /\ ~isCorrupt(disk[u])
  /\ disk' = [disk EXCEPT ![u] = CorruptMeta]
  /\ last' = NoLast
  /\ UNCHANGED <<tasks, bodies, fetchCalls>>
  /\ CacheFrame

CacheNext ==
  \/ \E u \in Urls : CacheFetch(u)
  \/ \E t \in BagToSet(tasks) : \E r \in CacheNetOutcomes(t.furl) \cup {Throw} : CacheNet(t, r)
  \/ \E t \in BagToSet(tasks) : CachePipe(t)
  \/ \E u \in Urls : CacheQuery(u)
  \/ \E u \in Urls : CacheHead(u)
  \/ \E u \in Urls : CorruptFile(u)
  \/ Tick

CacheSpec == Init /\ [][CacheNext]_vars

(***************************************************************************)
(* The import map on its own: resolve applied to the maps, specifiers and  *)
(* containing files of a small universe.                                   *)
(***************************************************************************)
\* keys "a/", "a/b/", "a/b/c" and "a", each with a value of its own
TestKeys == {<<"a", Slash>>, <<"a", Slash, "b", Slash>>,
             <<"a", Slash, "b", Slash, "c">>, <<"a">>}
testValue(k) ==
  CASE k = <<"a", Slash>> -> <<"X", Slash>>
    [] k = <<"a", Slash, "b", Slash>> -> <<"Y", Slash>>
    [] k = <<"a", Slash, "b", Slash, "c">> -> <<"Z">>
    [] OTHER -> <<"W">>
TestEntries == {[k |-> k, v |-> testValue(k)] : k \in TestKeys}

\* the sequences of at most n elements of S
SeqsUpTo(S, n) == UNION {[1..m -> S] : m \in 0..n}
\* the imports tables: every order of at most MaxEntries distinct keys
TestImports ==
  {q \in SeqsUpTo(TestEntries, MaxEntries) :
     \A i, j \in 1..Len(q) : i # j => q[i].k # q[j].k}

\* scopes "/a/", "/a/b/", "/a/b" and "https://esm.sh/a/"; each maps "b" to
\* a value of its own, and "/a/b/" comes also with a table that maps "a",
\* a key of the global tables
ScopeImports(key, value) == <<[k |-> <<key>>, v |-> <<value>>]>>
TestScopeEntries ==
  {[origin |-> BaseOrigin, pathname |-> <<Slash, "a", Slash>>,
    imports |-> ScopeImports("b", "P")],
   [origin |-> BaseOrigin, pathname |-> <<Slash, "a", Slash, "b", Slash>>,
    imports |-> ScopeImports("b", "Q")],
   [origin |-> BaseOrigin, pathname |-> <<Slash, "a", Slash, "b", Slash>>,
    imports |-> ScopeImports("a", "U")],
   [origin |-> BaseOrigin, pathname |-> <<Slash, "a", Slash, "b">>,
    imports |-> ScopeImports("b", "R")],
   [origin |-> RemoteOrigin, pathname |-> <<Slash, "a", Slash>>,
    imports |-> ScopeImports("b", "T")]}
TestScopes ==
  {q \in SeqsUpTo(TestScopeEntries, MaxEntries) :
     \A i, j \in 1..Len(q) :
       i # j => (q[i].origin # q[j].origin \/ q[i].pathname # q[j].pathname)}

TestMaps == {[imports |-> i, scopes |-> sc] : i \in TestImports, sc \in TestScopes}

TestSpecifiers == {<<"a", Slash, "b", Slash, "c">>, <<"a", Slash, "c">>, <<"a">>, <<"b">>}
\* /a/b/c.ts, /a/d.ts, /e.ts and https://esm.sh/a/b/c.ts
TestFiles ==
  {[origin |-> BaseOrigin, pathname |-> <<Slash, "a", Slash, "b", Slash, "c.ts">>],
   [origin |-> BaseOrigin, pathname |-> <<Slash, "a", Slash, "d.ts">>],
   [origin |-> BaseOrigin, pathname |-> <<Slash, "e.ts">>],
   [origin |-> RemoteOrigin, pathname |-> <<Slash, "a", Slash, "b", Slash, "c.ts">>]}

ImportInit ==
  /\ importMaps \in [Docs -> TestMaps]
  /\ InitPlugin

\* resolve(importMap, specifier, containingFile) is called; the history
\* keeps the arguments and the result
ImportResolve(specifier, containingFile) ==
  /\ last' = [op |-> "import-map", url |-> specifier, pre |-> containingFile,
              result |-> resolve(importMaps[IndexHtml], specifier, containingFile)]
  /\ UNCHANGED <<importMaps, urlMappings, typesMappings, httpImports, badImports,
                 fetchPromises, tasks, disk, bodies, timer, timers, fetchCalls,
                 configChanges, turn, failed, hist>>

ImportNext ==
  \E s \in TestSpecifiers, c \in TestFiles : ImportResolve(s, c)

ImportSpec == ImportInit /\ [][ImportNext]_vars

(***************************************************************************)
(* The configuration handler on its own: texts of index.html with zero, one *)
(* or two import maps, well-formed and not.                                *)
(***************************************************************************)
\* the JSON texts of the scripts
TestJsons ==
  LET String(x) == [type |-> "string", s |-> <<x>>]
      Number == [type |-> "number", s |-> <<>>]
      Empty == [type |-> "string", s |-> <<>>]
      Object(entries) == [type |-> "object", entries |-> entries]
      Array == [type |-> "array", entries |-> <<>>]
      Json(imports, scopes) == [type |-> "object", imports |-> imports, scopes |-> scopes]
      react(v) == <<[k |-> str("react"), v |-> String(v)]>>
      scope(path, table) == [origin |-> BaseOrigin, pathname |-> path, imports |-> table]
      a == <<Slash, "a", Slash>>
      b == <<Slash, "b", Slash>>
      bTo(v) == Object(<<[k |-> str("b"), v |-> String(v)]>>)
  IN [react |-> Json(Object(react(ModuleUrl)), NoTable),
      other |-> Json(Object(react(DtsUrl)), NoTable),
      scoped |-> Json(Object(react(ModuleUrl)), Object(<<scope(a, bTo("P"))>>)),
      scopedOther |-> Json(Object(react(ModuleUrl)), Object(<<scope(a, bTo("Q"))>>)),
      \* {"imports": {"react": url, "x": 1, "y": ""},
      \*  "scopes": {"/a/": {"b": "P", "c": 1}, "/b/": []}}
      malformed |-> Json(Object(react(ModuleUrl) \o <<[k |-> str("x"), v |-> Number],
                                                      [k |-> str("y"), v |-> Empty]>>),
                         Object(<<scope(a, Object(<<[k |-> str("b"), v |-> String("P")],
                                                   [k |-> str("c"), v |-> Number]>>)),
                                  scope(b, Array)>>)),
      \* {"imports": [], "scopes": 1}
      tables |-> Json(Array, [type |-> "number", entries |-> <<>>]),
      array |-> [type |-> "array", imports |-> NoTable, scopes |-> NoTable],
      invalid |-> [type |-> "invalid", imports |-> NoTable, scopes |-> NoTable]]

TestHtmls ==
  {<<OtherNode>>}
  \cup {<<OtherNode, Script(TestJsons[n])>> : n \in DOMAIN TestJsons}
  \cup {<<Script(TestJsons[n]), OtherNode, Script(TestJsons[m])>> :
          n \in {"react", "array", "invalid"}, m \in {"other", "invalid"}}

\* onConfigurationChanged is called; the history keeps the text, the map
\* stored before and the map extracted from the text
ConfigNotify(filepath, html) ==
  /\ configChanges < MaxNotifications
  /\ ConfigurationChanged(filepath, html)
  /\ last' = [op |-> "config", url |-> html, pre |-> importMaps[filepath],
              result |-> getImportMapFromHtml(html)]

ConfigNext ==
  \/ \E d \in Docs, h \in TestHtmls : ConfigNotify(d, h)
  \/ \E x \in timers : TimerFire(x)
  \/ Tick

ConfigSpec == Init /\ [][ConfigNext]_vars

(***************************************************************************)
(* The hook on its own: the host hands over several literals of one file, *)
(* some of which it resolved itself.                                       *)
(***************************************************************************)
\* the literals of a call with, for each, whether the host resolved it
HookLiterals ==
  {[literals |-> <<ModuleUrl, DtsUrl>>, host |-> <<FALSE, FALSE>>],
   [literals |-> <<ModuleUrl, DtsUrl>>, host |-> <<TRUE, FALSE>>],
   [literals |-> <<DtsUrl, ModuleUrl>>, host |-> <<FALSE, TRUE>>],
   [literals |-> <<"lodash", DtsUrl>>, host |-> <<FALSE, FALSE>>],
   [literals |-> <<ModuleUrl, DtsUrl>>, host |-> <<TRUE, TRUE>>]}

\* languageServiceHost.resolveModuleNameLiterals(literals, containingFile)
HookCall(c, containingFile) ==
  \E r \in {resolveModuleNameLiterals(TheWorld, importMaps, c.literals, c.host,
                                        containingFile, 1, <<>>)} :
     /\ r.w.fc <= MaxFetchCalls
     /\ SetWorld(r.w)
     /\ last' = [op |-> "hook", url |-> c.literals, pre |-> c.host, result |-> r.results]
     /\ turn' = NoTurn
     /\ NoUpdateGraph
     /\ UNCHANGED <<importMaps, bodies, configChanges, failed>>

HookNext ==
  \/ \E c \in HookLiterals, f \in ContainingFiles : HookCall(c, f)
  \/ \E t \in BagToSet(tasks) : PromiseThen(t)
  \/ \E t \in BagToSet(tasks) : \E r \in NetOutcomes(t.furl) \cup {Throw} : NetResponse(t, r)
  \/ \E t \in BagToSet(tasks) : PipeDone(t)
  \/ \E files \in SUBSET StorePaths : MissingFilesFetch(files)

HookSpec == Init /\ [][HookNext]_vars

(***************************************************************************)
(* The store paths on their own: bodies of declaration files are written   *)
(* to getStorePath(url) and a file of the store is turned back into the    *)
(* URL it stands for.  A URL is its host, pathname and search; a pathname  *)
(* and a path are sequences of units as above.                             *)
(***************************************************************************)
\* store operations in one run
MaxStored == 3

\* new URL("https://" + host + pathname + search)
URL(host, pathname, search) == [host |-> host, pathname |-> pathname, search |-> search]

\* the canonical host, its alternate and another host; a declaration file
\* and a module; no query string and two query strings
TestUrls ==
  {URL(h, p, q) : h \in {"esm.sh", "cdn.esm.sh", "ga.jspm.io"},
                  p \in {<<Slash, "react@18.3.1", Slash, "index.d.ts">>,
                         <<Slash, "react@18.3.1">>},
                  q \in {"", "?target=es2022", "?target=esnext"}}

\* cache.storeDir
storeDir == <<Slash, "home", Slash, ".cache", Slash, "esm.sh">>

\* savePath of cache.getStorePath(url), on the parts of the URL; join puts it
\* after the store directory
savePath(url) ==
  (IF url.host = "esm.sh" \/ url.host = "cdn.esm.sh" THEN <<>>
   ELSE <<Slash, "-", Slash, url.host>>) \o url.pathname

\* url.pathname.endsWith(".d.ts"), ".d.mts" or ".d.cts"
endsWithDts(pathname) == pathname[Len(pathname)] \in {"index.d.ts"}

\* createWriteStream(storePath) and pipeTo: the file at storePath now holds
\* the body of url, whatever it held before
writeBody(files, storePath, url) ==
  {f \in files : f.path # storePath} \cup {[path |-> storePath, url |-> url]}

\* lines 249-254 of the plugin: the URL that a file of the store stands for
urlOfStoreFile(containingFile) ==
  LET rel == slice(containingFile, Len(storeDir))
      \* new URL(rel, "https://esm.sh/")
      url == URL("esm.sh", rel, "")
  IN IF startsWith(url.pathname, <<Slash, "-", Slash>>)
     THEN LET parts == slice(url.pathname, 3)
          IN URL(parts[1], <<Slash>> \o slice(parts, 2), "")
     ELSE url

\* cache.fetch(url) got an answer that is stored (lines 128-132): the body of
\* a declaration file goes to its store path
StoreBody(url) ==
  /\ fetchCalls < MaxStored
  /\ fetchCalls' = fetchCalls + 1
  /\ \E storePath \in {storeDir \o savePath(url)} :
       /\ bodies' = IF endsWithDts(url.pathname)
                    THEN writeBody(bodies, storePath, url)
                    ELSE bodies
       /\ last' = [op |-> "store", url |-> url, pre |-> storePath, result |-> NoUrl]
  /\ UNCHANGED <<importMaps, urlMappings, typesMappings, httpImports, badImports,
                 fetchPromises, tasks, disk, timer, timers, configChanges, turn,
                 failed, hist>>

\* resolveModuleName is called with a containing file of the store and turns
\* it into its URL
StoreFileUrlOf(f) ==
  /\ last' = [op |-> "restore", url |-> f.url, pre |-> f.path,
              result |-> urlOfStoreFile(f.path)]
  /\ UNCHANGED <<importMaps, urlMappings, typesMappings, httpImports, badImports,
                 fetchPromises, tasks, disk, bodies, timer, timers, fetchCalls,
                 configChanges, turn, failed, hist>>

StoreNext ==
  \/ \E url \in TestUrls : StoreBody(url)
  \/ \E f \in bodies : StoreFileUrlOf(f)

StoreSpec == Init /\ [][StoreNext]_vars

(***************************************************************************)
(* The file-watch glue of the extension (extension.ts): saved documents    *)
(* pass one debounced function on their way to the plugin.  Here bodies    *)
(* holds the documents as saved, timers the pending timeouts with the      *)
(* arguments their callbacks captured, and tasks the configurePlugin       *)
(* requests sent to the language server.                                   *)
(***************************************************************************)
\* documents saved in one run
MaxSaves == 3

\* two index.html documents of the workspace and a document of another name
SavedDocs == {IndexHtml, "/proj/docs/index.html", LocalFile}

\* workspace.onDidSaveTextDocument fires for document filepath with text
\* html (lines 10-15), and the debounced onIndexHtmlChange is called
\* (lines 18-28)
OnDidSaveTextDocument(filepath, html) ==
  /\ configChanges < MaxSaves
  /\ configChanges' = configChanges + 1
  /\ bodies' = {f \in bodies : f.path # filepath} \cup {[path |-> filepath, html |-> html]}
  /\ IF filepath \in {IndexHtml, "/proj/docs/index.html"}
     THEN LET cleared == IF timer # NoTimer THEN {x \in timers : x.id # timer} ELSE timers
              id == newTimerId(timer, cleared)
          IN /\ timers' = cleared \cup {[id |-> id, left |-> DebounceMs,
                                         args |-> <<filepath, html>>]}
             /\ timer' = id
     ELSE UNCHANGED <<timer, timers>>
  /\ last' = [op |-> "save", url |-> filepath, pre |-> html, result |-> Undefined]
  /\ UNCHANGED <<importMaps, urlMappings, typesMappings, httpImports, badImports,
                 fetchPromises, tasks, disk, fetchCalls, turn, failed, hist>>

\* the timeout of debunce fires: fn(...args), that is
\* tsPlugin.onIndexHtmlChange(filename, html), which sends
\* api.configurePlugin(..., {indexHtml: [filename, html]}) (lines 41-45)
OnIndexHtmlChange(x) ==
  /\ x \in timers
  /\ x.left = 0
  /\ timers' = timers \ {x}
  /\ tasks' = tasks (+) SetToBag({Task("configurePlugin", x.args[1], "sent", NoUrl, x.args[2])})
  /\ last' = [op |-> "configurePlugin", url |-> x.args[1], pre |-> x.args[2],
              result |-> Undefined]
  /\ UNCHANGED <<importMaps, urlMappings, typesMappings, httpImports, badImports,
                 fetchPromises, disk, bodies, timer, fetchCalls, configChanges, turn,
                 failed, hist>>

GlueNext ==
  \/ \E d \in SavedDocs, h \in Htmls : OnDidSaveTextDocument(d, h)
  \/ \E x \in timers : OnIndexHtmlChange(x)
  \/ Tick

\* time passes and due timeouts run
GlueSpec ==
  /\ Init /\ [][GlueNext]_vars
  /\ WF_vars(Tick)
  /\ WF_vars(\E x \in timers : OnIndexHtmlChange(x))

(***************************************************************************)
(* Properties.                                                             *)
(***************************************************************************)
\* C1: when resolveModuleName is called several times in one synchronous
\* turn for a URL that was unknown, uncached and not in flight at the first
\* call, exactly one background task is created for it in that turn: the
\* first call records it in fetchPromises, the later calls start none.
C1_OneTaskPerTurn ==
  turn.url # NoUrl =>
    /\ turn.started = 1
    /\ turn.url \in fetchPromises
    /\ TasksFor(tasks, turn.url) = 1

C1_Witness == turn.url # NoUrl /\ turn.calls = 2 /\ turn.started = 1

\* C2: in every reachable state every URL has at most one background task
\* in flight, and it has one exactly when fetchPromises holds the URL.
C2_AtMostOneTask ==
  \A u \in Urls :
    /\ TasksFor(tasks, u) <= 1
    /\ (TasksFor(tasks, u) = 1) <=> (u \in fetchPromises)

C2_Witness ==
  \E u \in Urls :
    /\ TasksFor(tasks, u) = 1
    /\ \E t \in BagToSet(tasks) : t.url = u /\ t.kind = "missing"
    /\ last.op = "resolve" /\ last.url = u /\ last.pre = "pending"

\* C3: a resolveModuleName call whose module URL is in badImports returns
\* undefined, creates no task, records nothing in fetchPromises and issues
\* no network request.
C3_BadStaysUnresolved ==
  [][(last'.op = "resolve" /\ last'.pre = "bad") =>
       /\ last'.result = Undefined
       /\ tasks' = tasks
       /\ fetchPromises' = fetchPromises
       /\ fetchCalls' = fetchCalls
       /\ badImports' = badImports]_vars

C3_Witness ==
  /\ last.op = "resolve" /\ last.pre = "bad" /\ last.result = Undefined
  /\ last.url \in badImports /\ last.url \in failed

\* C4: every URL whose module fetch settled with a failure (a non-success
\* status or a rejected fetch) is in badImports.
C4_FailedIsBad == failed \subseteq badImports

\* C5: a resolveModuleName call for a URL whose fetch has settled with a
\* failure returns undefined and no task is in flight for the URL after it.
C5_FailedNeverRefetched ==
  (last.op = "resolve" /\ last.url \in failed) =>
    /\ last.result = Undefined
    /\ TasksFor(tasks, last.url) = 0

\* C6: every URL is in at most one of urlMappings, typesMappings,
\* httpImports and badImports.
C6_AtMostOneCollection ==
  \A u \in Urls :
    Cardinality({c \in {"url", "types", "http", "bad"} :
                   \/ c = "url" /\ urlMappings[u] # NoUrl
                   \/ c = "types" /\ typesMappings[u] # NoPath
                   \/ c = "http" /\ u \in httpImports
                   \/ c = "bad" /\ u \in badImports}) <= 1

\* C7: no step removes a URL from urlMappings, typesMappings, httpImports or
\* badImports.
C7_Monotonic ==
  [][\A u \in Urls :
       /\ urlMappings[u] # NoUrl => urlMappings'[u] # NoUrl
       /\ typesMappings[u] # NoPath => typesMappings'[u] # NoPath
       /\ u \in httpImports => u \in httpImports'
       /\ u \in badImports => u \in badImports']_vars

C7_Witness ==
  /\ configChanges > 0
  /\ httpImports # {}
  /\ badImports # {}
  /\ last.op = "resolve" /\ last.pre = "known"

\* C8: for a remote URL that is in none of the four collections and misses
\* the local cache, resolveModuleName returns the URL itself with extension
\* .js, whether it starts the fetch or finds one in flight, and the fetch is
\* still in flight when it returns.
C8_ProvisionalResult ==
  (last.op = "resolve" /\ last.pre \in {"unknown", "pending"}) =>
    /\ last.result = Resolved(last.url, ".js")
    /\ last.url \in fetchPromises
    /\ TasksFor(tasks, last.url) = 1

C8_Witness ==
  /\ last.op = "resolve" /\ last.pre = "pending"
  /\ last.result = Resolved(ModuleUrl, ".js")
  /\ \E t \in BagToSet(tasks) : t.url = ModuleUrl /\ t.pc = "dtsnet"

ModuleTask(u) == \E t \in BagToSet(tasks) : t.kind = "module" /\ t.url = u

\* C9: when a task started by resolveModuleName settles, its fetchPromises
\* entry is gone and the debounced refresh has been triggered; every such
\* task settles, and a triggered refresh runs.
C9_SettlesAndRefreshes ==
  /\ [][\A u \in Urls :
          (ModuleTask(u) /\ ~ModuleTask(u)') =>
            /\ u \notin fetchPromises'
            /\ hist'.since = 0 /\ hist'.runs = 0
            /\ \E x \in timers' : x.id = timer' /\ x.left = DebounceMs]_vars
  /\ \A u \in Urls : ModuleTask(u) ~> (~ModuleTask(u) /\ u \notin fetchPromises)
  /\ (timers # {}) ~> (timers = {} /\ hist.runs = 1)

C9_Witness ==
  /\ configChanges = 0
  /\ failed # {}
  /\ fetchPromises = {}
  /\ timers = {} /\ hist.runs = 1

\* C10: at most one timer is pending; the refresh never runs less than
\* DebounceMs after a trigger and runs at most once after the last trigger;
\* after triggers that came less than DebounceMs apart it runs.
C10_Coalesced ==
  /\ [](Cardinality(timers) <= 1 /\ hist.runs <= 1)
  /\ [][hist'.runs > hist.runs => (hist.since >= DebounceMs /\ timers' = {})]_vars
  /\ (hist.coalesced /\ hist.runs = 0) ~> (hist.runs = 1)

C10_Witness == hist.coalesced /\ hist.runs = 1 /\ timers = {}

\* C11: when the sibling declaration file named by x-typescript-types has
\* been fetched successfully (answered without a usable max-age, written to
\* the store, or found in the cache), the module URL is memoized in
\* typesMappings with the store path of that file; and a resolveModuleName
\* call for a module memoized in typesMappings returns that path.
C11_TypesMemoized ==
  /\ [][\A t \in BagToSet(tasks) :
         /\ (t.pc = "dtspipe" /\ PipeDone(t))
               => typesMappings'[t.url] = getStorePath(t.res.url)
         /\ \A r \in NetOutcomes(t.furl) :
              /\ (t.pc = "dtsnet" /\ ok(r) /\ r.maxAge < 0 /\ NetResponse(t, r))
                    => typesMappings'[t.url] = getStorePath(r.url)
              /\ (t.kind = "module" /\ t.pc = "net" /\ ok(r) /\ r.dts # NoUrl
                    /\ ok(queryRes(disk, r.dts)) /\ NetResponse(t, r))
                    => typesMappings'[t.url] = getStorePath(queryRes(disk, r.dts).url)]_vars
  /\ [](\A u \in Urls :
         (last.op = "resolve" /\ last.url = u /\ ~isDts(u) /\ typesMappings[u] # NoPath)
           => last.result = Resolved(typesMappings[u], ".d.ts"))

\* C12: resolveModuleName terminates for every content of urlMappings and of
\* the redirect records of the cache: no call exhausts the call stack.
C12_RedirectsBounded ==
  last.op = "resolve" => last.result # StackOverflow

\* C13: once a redirect response for a URL is cached, query of that URL
\* returns, marked as redirected, the final entry that is no redirect: its
\* url is the target and not the URL asked for.
C13_QueryFollowsRedirect ==
  \A u \in Urls :
    (disk[u] # NoMeta /\ disk[u].location # NoUrl) =>
      LET res == queryRes(disk, u)
      IN /\ res.redirected
         /\ res.url # u
         /\ disk[res.url] # NoMeta /\ disk[res.url].location = NoUrl

\* C14: a successful response without a usable max-age (no cache-control, no
\* max-age, or max-age=0), fetched for a URL that has no metadata, is not
\* persisted: once fetch has returned it, query and head of the URL return
\* none.
C14_NoMaxAgeNotPersisted ==
  [][\A t \in CacheTasks : \A r \in CacheNetOutcomes(t.furl) :
       (ok(r) /\ r.maxAge <= 0 /\ disk[t.furl] = NoMeta /\ CacheNet(t, r))
         => /\ queryRes(disk', t.furl) = NullRes
            /\ headRes(disk', t.furl) = NullRes]_vars

\* C15: query of a URL stored with max-age=N returns the stored entry while
\* its age is at most N*1000 ms and leaves the metadata in place; the first
\* query after that returns none and removes the metadata, so that the
\* queries after it miss as well.
C15_TtlRoundTrip ==
  [][\A u \in Urls :
       LET meta == disk[u]
       IN (CacheQuery(u) /\ meta # NoMeta /\ ~isCorrupt(meta)
             /\ meta.location = NoUrl /\ meta.maxAge >= 0)
          => IF meta.age <= meta.maxAge * 1000
             THEN /\ last'.result = [status |-> 200, redirected |-> FALSE,
                                      url |-> meta.url, dts |-> meta.dts,
                                      maxAge |-> meta.maxAge]
                  /\ disk' = disk
             ELSE /\ last'.result = NullRes
                  /\ disk'[u] = NoMeta
                  /\ queryRes(disk', u) = NullRes]_vars

\* a hit at the last millisecond of the entry's life
C15_Witness ==
  /\ last.op = "query" /\ last.pre = "fresh" /\ last.result.status = 200
  /\ disk[last.url].maxAge = 1 /\ disk[last.url].age = 1000

\* the miss that removes the expired entry
C15_WitnessExpired ==
  /\ last.op = "query" /\ last.pre = "stale" /\ last.result = NullRes
  /\ disk[last.url] = NoMeta

\* C16: query and head of a URL whose metadata file cannot be parsed return
\* none and delete the file; fetch of such a URL deletes the file and sends
\* the request to the network.
C16_SelfHealing ==
  [][\A u \in Urls :
       isCorrupt(disk[u]) =>
         /\ CacheQuery(u) => (last'.result = NullRes /\ disk'[u] = NoMeta)
         /\ CacheHead(u) => (last'.result = NullRes /\ disk'[u] = NoMeta)
         /\ CacheFetch(u) =>
              /\ disk'[u] = NoMeta
              /\ fetchCalls' = fetchCalls + 1
              /\ TasksFor(tasks', u) = TasksFor(tasks, u) + 1]_vars

C16_Witness ==
  /\ last.op = "fetch" /\ last.pre = "corrupt"
  /\ disk[last.url] = NoMeta
  /\ \E t \in CacheTasks : t.url = last.url /\ t.pc = "net"

\* C17: whenever query returns a hit for the URL of a declaration file, the
\* body of the file is present in the store.
C17_HitHasBody ==
  \A u \in Urls :
    (isDts(u) /\ queryRes(disk, u) # NullRes /\ ~queryRes(disk, u).redirected)
      => u \in bodies

\* the matching rule for a key that is not the specifier itself: a key that
\* ends in "/" is a prefix of the specifier, any other key followed by "/" is
prefixMatches(k, specifier) ==
  IF endsWithSlash(k) THEN startsWith(specifier, k)
  ELSE startsWith(specifier, k \o <<Slash>>)

\* what is left of the specifier after the key
remainder(specifier, k) ==
  CHOOSE rest \in {SubSeq(specifier, i, Len(specifier)) : i \in 1..(Len(specifier) + 1)} :
    k \o rest = specifier

\* the last call of resolve had a map without scopes and a containing file
\* of the origin of the map
GlobalOnly ==
  /\ last.op = "import-map"
  /\ Len(importMaps[IndexHtml].scopes) = 0
  /\ last.pre.origin = BaseOrigin

\* C18: with only a global imports table, a key equal to the specifier wins
\* over every prefix key; without one, the result is the value of a matching
\* prefix key followed by exactly the rest of the specifier after that key;
\* without any match the specifier is returned unresolved.
C18_ExactThenPrefix ==
  GlobalOnly =>
    LET imports == importMaps[IndexHtml].imports
        matching == {k \in keys(imports) : prefixMatches(k, last.url)}
    IN /\ hasKey(imports, last.url)
            => last.result = <<valueOf(imports, last.url), TRUE>>
       /\ (~hasKey(imports, last.url) /\ matching # {})
            => \E k \in matching :
                 last.result = <<valueOf(imports, k) \o remainder(last.url, k), TRUE>>
       /\ (~hasKey(imports, last.url) /\ matching = {})
            => last.result = <<last.url, FALSE>>

\* "a/" is declared before "a/b/c"; "a/b/c" resolves through the exact key
C18_Witness ==
  /\ GlobalOnly
  /\ importMaps[IndexHtml].imports =
       <<[k |-> <<"a", Slash>>, v |-> <<"X", Slash>>],
         [k |-> <<"a", Slash, "b", Slash, "c">>, v |-> <<"Z">>]>>
  /\ last.url = <<"a", Slash, "b", Slash, "c">>
  /\ last.result = <<(<<"Z">>), TRUE>>

\* "a/c" resolves through "a/" to "X/" followed by "c"
C18_WitnessPrefix ==
  /\ GlobalOnly
  /\ importMaps[IndexHtml].imports = <<[k |-> <<"a", Slash>>, v |-> <<"X", Slash>>]>>
  /\ last.url = <<"a", Slash, "c">>
  /\ last.result = <<(<<"X", Slash, "c">>), TRUE>>

\* C19: when no key equals the specifier and several keys are prefixes of
\* it, the result comes from the longest of them, whatever the order of the
\* keys in the table.
C19_LongestPrefixWins ==
  GlobalOnly =>
    LET imports == importMaps[IndexHtml].imports
        matching == {k \in keys(imports) : prefixMatches(k, last.url)}
    IN (~hasKey(imports, last.url) /\ matching # {})
         => LET longest == CHOOSE k \in matching : \A x \in matching : Len(x) <= Len(k)
            IN last.result = <<valueOf(imports, longest) \o remainder(last.url, longest), TRUE>>

\* the scopes (by position) that are of the origin of the containing file,
\* whose path is a prefix of its path, and that map the specifier
matchingScopes ==
  LET scopes == importMaps[IndexHtml].scopes
  IN {i \in 1..Len(scopes) :
        /\ scopes[i].origin = last.pre.origin
        /\ startsWith(last.pre.pathname, scopes[i].pathname)
        /\ truthy(matchImportUrl(last.url, scopes[i].imports))}

\* C20: when several scopes match the path of the containing file and map
\* the specifier, the result comes from one with the most path segments,
\* whatever the order in which the scopes are declared.
C20_DeepestScopeWins ==
  (last.op = "import-map" /\ matchingScopes # {}) =>
    LET scopes == importMaps[IndexHtml].scopes
    IN \E i \in matchingScopes :
         /\ \A j \in matchingScopes :
              splitLength(scopes[j].pathname) <= splitLength(scopes[i].pathname)
         /\ last.result = <<matchImportUrl(last.url, scopes[i].imports), TRUE>>

\* "/a/" is declared before "/a/b/"; /a/b/c.ts resolves "b" through "/a/b/"
C20_Witness ==
  /\ last.op = "import-map"
  /\ Len(importMaps[IndexHtml].scopes) = 2
  /\ importMaps[IndexHtml].scopes[1].pathname = <<Slash, "a", Slash>>
  /\ importMaps[IndexHtml].scopes[2].pathname = <<Slash, "a", Slash, "b", Slash>>
  /\ matchingScopes = {1, 2}
  /\ last.pre.pathname = <<Slash, "a", Slash, "b", Slash, "c.ts">>
  /\ last.result = <<(<<"Q">>), TRUE>>

\* C21: a scope that matches the path of the containing file and maps the
\* specifier decides the result even when the global table maps the
\* specifier too; the global table decides only when no such scope exists and
\* the containing file is of the origin of the map; in every other case the
\* specifier comes back unchanged with matched = false.
C21_ScopesBeforeGlobal ==
  last.op = "import-map" =>
    LET scopes == importMaps[IndexHtml].scopes
        global == matchImportUrl(last.url, importMaps[IndexHtml].imports)
    IN /\ matchingScopes # {}
            => \E i \in matchingScopes :
                 last.result = <<matchImportUrl(last.url, scopes[i].imports), TRUE>>
       /\ (matchingScopes = {} /\ last.pre.origin = BaseOrigin /\ truthy(global))
            => last.result = <<global, TRUE>>
       /\ (matchingScopes = {} /\ (last.pre.origin # BaseOrigin \/ ~truthy(global)))
            => last.result = <<last.url, FALSE>>

\* "a" is mapped by the scope "/a/b/" to U and by the global table to W;
\* /a/b/c.ts resolves it to U
C21_Witness ==
  /\ last.op = "import-map"
  /\ last.url = <<"a">>
  /\ last.pre = [origin |-> BaseOrigin, pathname |-> <<Slash, "a", Slash, "b", Slash, "c.ts">>]
  /\ matchingScopes # {}
  /\ matchImportUrl(last.url, importMaps[IndexHtml].imports) = <<"W">>
  /\ last.result = <<(<<"U">>), TRUE>>

\* no scope maps "a" and the containing file is remote: the global table,
\* which maps "a", is not asked
C21_WitnessRemote ==
  /\ last.op = "import-map"
  /\ last.pre.origin = RemoteOrigin
  /\ matchingScopes = {}
  /\ truthy(matchImportUrl(last.url, importMaps[IndexHtml].imports))
  /\ last.result = <<last.url, FALSE>>

\* structural equality of two import maps: the same entries in imports, the
\* same scope keys, and the same entries in each scope
entrySet(imports) == {<<imports[i].k, imports[i].v>> : i \in 1..Len(imports)}
structurallyEqual(a, b) ==
  /\ entrySet(a.imports) = entrySet(b.imports)
  /\ {<<a.scopes[i].origin, a.scopes[i].pathname, entrySet(a.scopes[i].imports)>> :
        i \in 1..Len(a.scopes)}
     = {<<b.scopes[i].origin, b.scopes[i].pathname, entrySet(b.scopes[i].imports)>> :
        i \in 1..Len(b.scopes)}

\* C22: isSame is structural equality: for the map extracted from a
\* notified text and the map stored before, isSame is true exactly when both
\* have the same imports and the same scopes with the same entries, gives the
\* same answer with its arguments exchanged, and is true of a map and itself.
C22_IsSameStructural ==
  (last.op = "config" /\ last.pre # NoMap) =>
    /\ isSame(last.result, last.pre) = structurallyEqual(last.result, last.pre)
    /\ isSame(last.pre, last.result) = isSame(last.result, last.pre)
    /\ isSame(last.result, last.result)
    /\ isSame(last.pre, last.pre)

\* C23: a notification whose map differs from the stored one replaces the
\* stored map (removes it when the new one is blank) and emits the debounced
\* refresh; one whose map does not differ from a stored map changes nothing
\* and emits no refresh; so the stored map is always the map of the last
\* notified text.
C23_StoredMapFollowsText ==
  /\ [][\A d \in Docs, h \in TestHtmls :
         (last'.op = "config" /\ ConfigNotify(d, h)) =>
           LET new == getImportMapFromHtml(h)
           IN IF ~structurallyEqual(new, importMaps[d])
              THEN importMaps'[d] = new /\ timer' # timer
              ELSE importMaps[d] # NoMap
                     => (importMaps' = importMaps /\ UNCHANGED <<timer, timers>>)]_vars
  /\ [](last.op = "config" => structurallyEqual(importMaps[IndexHtml], last.result))

\* the values of a table of an import map are non-empty strings
wellFormed(im) ==
  /\ \A i \in 1..Len(im.imports) : im.imports[i].v # <<>>
  /\ \A i \in 1..Len(im.scopes) :
       \A j \in 1..Len(im.scopes[i].imports) : im.scopes[i].imports[j].v # <<>>

\* the entries of a JSON table whose value is a non-empty string
stringEntries(table) ==
  IF table.type # "object" THEN {}
  ELSE {<<table.entries[i].k, table.entries[i].v.s>> :
          i \in {j \in 1..Len(table.entries) :
                   table.entries[j].v.type = "string" /\ table.entries[j].v.s # <<>>}}

\* C24: the map extracted from a text, and the map stored, hold only
\* non-empty strings; the map made from one JSON object holds exactly the
\* entries of imports whose value is a non-empty string and exactly the
\* scopes that are objects, each with exactly such entries; a JSON text that
\* is no object gives a blank map.
C24_ValidationKeepsWellFormed ==
  last.op = "config" =>
    /\ wellFormed(last.result)
    /\ wellFormed(importMaps[IndexHtml])
    /\ (Len(last.url) = 2 /\ last.url[2].tag = "importmap") =>
         LET v == last.url[2].json
         IN IF v.type = "object"
            THEN /\ entrySet(last.result.imports) = stringEntries(v.imports)
                 /\ {<<last.result.scopes[i].origin, last.result.scopes[i].pathname,
                        entrySet(last.result.scopes[i].imports)>> :
                        i \in 1..Len(last.result.scopes)}
                    = IF v.scopes.type # "object" THEN {}
                      ELSE {<<e.origin, e.pathname, stringEntries(e.imports)>> :
                              e \in {v.scopes.entries[i] :
                                       i \in {j \in 1..Len(v.scopes.entries) :
                                                v.scopes.entries[j].imports.type = "object"}}}
            ELSE last.result = NoMap

\* the malformed text: of imports only "react" is kept, of the scopes only
\* "/a/" with its entry "b"
C24_Witness ==
  /\ last.op = "config"
  /\ last.url = <<OtherNode, Script(TestJsons.malformed)>>
  /\ last.result =
       [imports |-> <<[k |-> str("react"), v |-> str(ModuleUrl)]>>,
        scopes |-> <<[origin |-> BaseOrigin, pathname |-> <<Slash, "a", Slash>>,
                      imports |-> <<[k |-> str("b"), v |-> str("P")]>>]>>]
  /\ importMaps[IndexHtml] = last.result

\* C25: the map loaded from a text with several scripts of type importmap is
\* the map of the first of them in document order; the later ones have no
\* effect.
C25_FirstImportMapScript ==
  last.op = "config" =>
    LET scripts == {i \in 1..Len(last.url) : last.url[i].tag = "importmap"}
    IN scripts # {} =>
         LET first == CHOOSE i \in scripts : \A j \in scripts : i <= j
         IN last.result = importMapFrom(last.url[first].json)

\* C26: the hook returns one result for each literal and none of them is a
\* failure of resolveModuleName: a literal for which resolveModuleName
\* throws gets "no resolution", and every other literal that the host left
\* unresolved gets the result of resolveModuleName for it.
C26_NoFailureCrossesHook ==
  [][\A c \in HookLiterals, f \in ContainingFiles :
       (last'.op = "hook" /\ HookCall(c, f)) =>
         /\ Len(last'.result) = Len(c.literals)
         /\ \A i \in 1..Len(c.literals) :
              /\ last'.result[i] # StackOverflow
              /\ ~c.host[i] =>
                   LET alone == resolveModuleName(TheWorld, importMaps, c.literals[i], f, 0)
                   IN last'.result[i] = IF alone.result = StackOverflow THEN Undefined
                                        ELSE alone.result]_vars

\* resolveModuleName throws for one literal (the declaration file redirects to
\* itself), which gets "no resolution", and the other literal has its result
C26_Witness ==
  /\ last.op = "hook"
  /\ urlMappings[DtsUrl] = DtsUrl
  /\ resolveModuleName(TheWorld, importMaps, DtsUrl, LocalFile, 0).result = StackOverflow
  /\ \E i \in 1..2 :
       /\ last.url[i] = DtsUrl /\ ~last.pre[i]
       /\ last.result[i] = Undefined
       /\ last.result[3 - i] # Undefined

\* the throwing literal comes first and the literal after it is still answered
C26_WitnessFirst ==
  /\ last.op = "hook"
  /\ last.url = <<DtsUrl, ModuleUrl>>
  /\ last.pre = <<FALSE, TRUE>>
  /\ urlMappings[DtsUrl] = DtsUrl
  /\ last.result = <<Undefined, HostResolved>>

\* C27: a literal that the host resolved keeps the result of the host, and a
\* call whose literals the host resolved all leaves the memos, the in-flight
\* fetches, the cache and the count of network requests as they were.
C27_HostResultFirst ==
  [][\A c \in HookLiterals, f \in ContainingFiles :
       (last'.op = "hook" /\ HookCall(c, f)) =>
         /\ \A i \in 1..Len(c.literals) : c.host[i] => last'.result[i] = HostResolved
         /\ (\A i \in 1..Len(c.literals) : c.host[i])
              => UNCHANGED <<urlMappings, typesMappings, httpImports, badImports,
                             fetchPromises, tasks, disk, fetchCalls>>
         /\ \A u \in Urls :
              (/\ \A i \in 1..Len(c.literals) : ~c.host[i] => c.literals[i] # u
               /\ u \notin fetchPromises)
                => u \notin fetchPromises']_vars

\* the host resolved both remote literals: nothing was fetched or memoized
C27_Witness ==
  /\ last.op = "hook"
  /\ last.url = <<ModuleUrl, DtsUrl>>
  /\ last.pre = <<TRUE, TRUE>>
  /\ last.result = <<HostResolved, HostResolved>>
  /\ fetchCalls = 0 /\ fetchPromises = {}
  /\ urlMappings = [u \in Urls |-> NoUrl] /\ typesMappings = [u \in Urls |-> NoPath]
  /\ httpImports = {}

\* a call that no import map resolves and whose specifier is neither an
\* http(s) URL nor a relative path
isMiss(s, c) ==
  /\ ~isHttpUrl(s)
  /\ ~isRelativePath(s)
  /\ ~resolveWithImportMaps(importMaps, s, c)[2]

\* C28: a resolution miss has no effect: in every state the plugin reaches,
\* resolveModuleName on a miss returns undefined and leaves the state it found:
\* urlMappings, typesMappings, httpImports, badImports, fetchPromises, the
\* background tasks, the cache and the count of network requests are unchanged
\* and no URL was classified (so no cache record was read, no request sent).
C28_MissHasNoEffect ==
  \A s \in Specifiers, c \in ContainingFiles :
     isMiss(s, c) =>
       \E r \in {resolveModuleName(TheWorld, importMaps, s, c, 0)} :
          /\ r.result = Undefined
          /\ r.w = TheWorld
          /\ r.w.href = NoUrl /\ r.w.pre = "none" /\ ~r.w.net

\* a miss under a loaded import map while a fetch is in flight and a module
\* is memoized
C28_Witness ==
  /\ importMaps[IndexHtml] # NoMap
  /\ isMiss("lodash", LocalFile)
  /\ last = [op |-> "resolve", url |-> NoUrl, pre |-> "none", result |-> Undefined]
  /\ fetchPromises # {}
  /\ httpImports \cup badImports # {}

\* without an import map, a bare specifier that a map would resolve is a miss
C28_WitnessNoMap ==
  /\ importMaps[IndexHtml] = NoMap
  /\ isMiss("react", StoreFile)
  /\ last = [op |-> "resolve", url |-> NoUrl, pre |-> "none", result |-> Undefined]
  /\ fetchPromises # {}

\* C29: a body in the store is never overwritten by the body of a URL with
\* the same host and path and another query string.
C29_QueryUrlsDoNotCollide ==
  [][\A url \in TestUrls :
       (last'.op = "store" /\ StoreBody(url)) =>
         \A f \in bodies :
            (f.url.host = url.host /\ f.url.pathname = url.pathname
               /\ f.url.search # url.search) => f \in bodies']_vars

\* C30: the URL made from the store path of a stored URL without a query
\* string is that URL.
C30_RestoreInvertsStorePath ==
  (last.op = "restore" /\ last.url.search = "") => last.result = last.url

\* the cache.fetch calls for URL u that are in progress: at the network or
\* writing the body, whichever task made them
fetchesInProgress(u) ==
  LET ts == {t \in BagToSet(tasks) :
               t.furl = u /\ t.pc \in {"net", "pipe", "dtsnet", "dtspipe"}}
      RECURSIVE sum(_)
      sum(S) == IF S = {} THEN 0
                ELSE LET t == CHOOSE x \in S : TRUE
                     IN CopiesIn(t, tasks) + sum(S \ {t})
  IN sum(ts)

\* C31: at no time are two cache.fetch calls for the same URL in progress,
\* whether resolveModuleName, the completion handler of a module (for the
\* sibling declaration file) or the fetch of missing files started them.
C31_OneFetchPerUrl ==
  \A u \in Urls : fetchesInProgress(u) <= 1

\* the tasks that a call started: those of world w that the state lacks
startedBy(w) == BagToSet(w.tasks (-) tasks)

\* the specifier for which the task of URL u was started by the call with
\* specifier s that left world w: s itself, or u when the call went on to u
\* through a redirect
innermost(s, w, u) == IF w.href = u THEN s ELSE u

\* the import maps of index.html that a call may find loaded: none, "react"
\* as the package URL, and "react" as a declaration URL
LoadedMaps ==
  {importMaps, [d \in Docs |-> ReactMap], [d \in Docs |-> importMapFrom(TestJsons.other)]}

\* C32: in every state the plugin reaches and under each of the loaded maps, a
\* call of resolveModuleName sends a request to the network exactly when it
\* starts a task for a URL and the import map resolved the specifier, or the
\* containing file is remote or in the cache store, or the URL has the shape
\* of a package path; a task started for any other URL only carries the
\* (empty) answer of the local cache.
C32_FetchOnlyWhenEager ==
  \A maps \in LoadedMaps, s \in Specifiers, c \in ContainingFiles :
     \E r \in {resolveModuleName(TheWorld, maps, s, c, 0)} :
        /\ r.w.fc > fetchCalls => startedBy(r.w) # {}
        /\ \A t \in startedBy(r.w) :
             IF \/ resolveWithImportMaps(maps, innermost(s, r.w, t.url), c)[2]
                \/ isHttpUrl(c)
                \/ c = StoreFile
                \/ t.url = ModuleUrl
             THEN t.pc = "net" /\ r.w.fc = fetchCalls + 1
             ELSE t.pc = "then" /\ t.res = NullRes /\ r.w.fc = fetchCalls

\* one call of the hook from a project file without an import map: the
\* package URL is at the network, the declaration URL has a task that only
\* carries the empty answer of the local cache, and one request was sent
C32_Witness ==
  /\ last.op = "hook" /\ last.url = <<ModuleUrl, DtsUrl>> /\ last.pre = <<FALSE, FALSE>>
  /\ fetchCalls = 1
  /\ \E t \in BagToSet(tasks) : t.url = ModuleUrl /\ t.pc = "net"
  /\ \E t \in BagToSet(tasks) : t.url = DtsUrl /\ t.pc = "then" /\ t.res = NullRes

\* the declaration URL is unknown and a map that resolves "react" to it makes
\* the call from a project file send the request, while the URL written out
\* in the same file does not
C32_WitnessMap ==
  /\ last.op = "hook"
  /\ Classify(TheWorld, DtsUrl) = "unknown"
  /\ \E m \in LoadedMaps :
       /\ resolveModuleName(TheWorld, m, "react", LocalFile, 0).w.fc = fetchCalls + 1
       /\ resolveModuleName(TheWorld, m, DtsUrl, LocalFile, 0).w.fc = fetchCalls

\* C33: a call that finds the module in the local cache with an
\* x-typescript-types header memoizes it as typed, resolves it to the
\* declaration path and does not add it to httpImports.
C33_CachedTypedNotRuntime ==
  [][(/\ last'.op = "resolve"
      /\ last'.pre = "cached"
      /\ ~queryRes(disk, last'.url).redirected
      /\ queryRes(disk, last'.url).dts # NoUrl)
       => /\ last'.url \notin httpImports'
          /\ typesMappings'[last'.url] # NoPath
          /\ last'.result = Resolved(typesMappings'[last'.url], ".d.ts")]_vars

\* C34: when the network answers the request for the sibling declaration
\* file of a successfully fetched module with a non-success status, the
\* module URL is added to badImports, httpImports and typesMappings stay as
\* they were and the task is over; and a literal whose URL is in badImports
\* is returned unresolved.
C34_SiblingFailureIsBad ==
  [][/\ \A t \in {x \in BagToSet(tasks) : x.pc = "dtsnet"} :
        \A r \in {x \in NetOutcomes(t.furl) : ~(x.status >= 200 /\ x.status <= 299)} :
          (last'.op = "none" /\ NetResponse(t, r))
            => /\ badImports' = badImports \cup {t.url}
               /\ httpImports' = httpImports
               /\ typesMappings' = typesMappings
               /\ t.url \notin fetchPromises'
     /\ last'.op = "hook" =>
          \A i \in 1..2 :
             (~last'.pre[i] /\ last'.url[i] \in badImports) => last'.result[i] = Undefined]_vars

\* the module is in the cache with its 200 answer, its own fetch did not
\* fail, the request for its declaration file was answered with an error
\* status, it is in badImports and not in httpImports, and the hook returned
\* it unresolved
C34_Witness ==
  /\ disk[ModuleUrl].code = 200 /\ disk[ModuleUrl].dts = DtsUrl
  /\ ModuleUrl \in badImports \ (failed \cup httpImports)
  /\ typesMappings[ModuleUrl] = NoPath
  /\ ModuleUrl \notin fetchPromises
  /\ disk[DtsUrl] = NoMeta
  /\ last.op = "hook" /\ last.url[1] = ModuleUrl /\ ~last.pre[1]
  /\ last.result[1] = Undefined

\* C35: when the task of the passive path runs with the empty answer of the
\* local cache, its URL enters none of urlMappings, typesMappings,
\* httpImports and badImports, and nothing is written to the cache.
C35_PassivePollHasNoEffect ==
  [][\A t \in {x \in Microtasks : x.kind = "module" /\ x.res = NullRes} :
       (last'.op = "none" /\ PromiseThen(t))
         => /\ urlMappings' = urlMappings
            /\ typesMappings' = typesMappings
            /\ httpImports' = httpImports
            /\ badImports' = badImports
            /\ disk' = disk /\ bodies' = bodies]_vars

\* C36: a URL with a background fetch in flight (a key of fetchPromises) is
\* in none of urlMappings, typesMappings, httpImports and badImports.
C36_PendingNotClassified ==
  \A u \in fetchPromises :
     /\ urlMappings[u] = NoUrl
     /\ typesMappings[u] = NoPath
     /\ u \notin httpImports
     /\ u \notin badImports

\* C37: every save of an index.html document is eventually followed by a
\* configurePlugin request for that document.
C37_EverySaveDelivered ==
  \A d \in {IndexHtml, "/proj/docs/index.html"} :
     (last.op = "save" /\ last.url = d)
       ~> (\E t \in BagToSet(tasks) : t.kind = "configurePlugin" /\ t.url = d)

\* C38: when the fetch of a missing declaration file settles, the body file
\* exists in the store or the URL is in badImports.
C38_MissingFetchSettlesForGood ==
  [][\A t \in {x \in BagToSet(tasks) : x.kind = "missing"} :
       (t.url \in fetchPromises /\ t.url \notin fetchPromises')
         => t.url \in bodies' \cup badImports']_vars

\* C39: urlMappings maps no URL to itself.
C39_NoSelfMapping ==
  \A u \in Urls : urlMappings[u] # u

====
